---- MODULE Spec2Model ----
(***************************************************************************)
(* Publish-check orchestration of scripts/run_publish_check.py together    *)
(* with the workspace helpers of scripts/publish_workspace.py that it      *)
(* imports.  Under Spec one behaviour is one call of run_publish_check;    *)
(* under FnSpec one behaviour is one direct call of a single function.     *)
(***************************************************************************)
EXTENDS Integers, Sequences, FiniteSets, TLC

VARIABLES
    keep_tmp,          \* argument of run_publish_check
    timeout_secs,      \* argument of run_publish_check
    live,              \* argument of run_publish_check
    CRATE_ORDER,       \* module attribute read by _process_crates
    pc,                \* position inside run_publish_check
    error,             \* message of the exception in flight ("" when none)
    tmp_created,       \* tempfile.mkdtemp() has returned
    workspace_exists,  \* the temporary workspace directory is on disk
    preserved,         \* number of "preserving workspace at ..." lines printed
    root_manifest,     \* <workspace>/Cargo.toml of the snapshot
    crate_manifests,   \* <workspace>/crates/<crate>/Cargo.toml, per crate
    version,           \* local variable version of _process_crates
    idx,               \* position of the for loop over CRATE_ORDER
    cmd_idx,           \* position of the for loop over the live commands
    ops,               \* history: every collaborator call, in call order
    call,              \* a direct call of one function: its name and arguments
    ret                \* what that call returned or raised

vars == << keep_tmp, timeout_secs, live, CRATE_ORDER, pc, error, tmp_created,
           workspace_exists, preserved, root_manifest, crate_manifests,
           version, idx, cmd_idx, ops, call, ret >>

----------------------------------------------------------------------------
(* Bounds of the model                                                     *)

MaxOrderLen == 3
MaxTimeout == 1
MaxCasePeriod == 3
MaxPatchEntries == 2
MaxCrates == 2
MaxMembers == 3
MaxEntries == 2
MaxFairOrderLen == 2

----------------------------------------------------------------------------
(* Configuration tables                                                    *)

PUBLISHABLE_CRATES ==
    << "rstest-bdd-patterns", "rstest-bdd-macros", "rstest-bdd", "cargo-bdd" >>

Range(s) == { s[i] : i \in DOMAIN s }

LOCKED_LIVE_CRATES == { "cargo-bdd" }

DEFAULT_LIVE_PUBLISH_COMMANDS ==
    << << "cargo", "publish", "--dry-run" >>, << "cargo", "publish" >> >>

LOCKED_LIVE_PUBLISH_COMMANDS ==
    << << "cargo", "publish", "--dry-run", "--locked" >>,
       << "cargo", "publish", "--locked" >> >>

\* variant: every crate gets the plain sequence
LIVE_PUBLISH_COMMANDS_all_default ==
    [ crate \in Range(PUBLISHABLE_CRATES) |-> DEFAULT_LIVE_PUBLISH_COMMANDS ]

LIVE_PUBLISH_COMMANDS ==
    [ crate \in Range(PUBLISHABLE_CRATES) |->
        IF crate \in LOCKED_LIVE_CRATES
        THEN LOCKED_LIVE_PUBLISH_COMMANDS
        ELSE DEFAULT_LIVE_PUBLISH_COMMANDS ]

\* REPLACEMENTS of publish_patch.py: crate -> (section, name, path) patches
REPLACEMENTS ==
    [ crate \in { "rstest-bdd-macros", "rstest-bdd", "cargo-bdd" } |->
        CASE crate = "rstest-bdd-macros" ->
               << [section |-> "dependencies", name |-> "rstest-bdd-patterns",
                   path |-> "../rstest-bdd-patterns"],
                  [section |-> "dev-dependencies", name |-> "rstest-bdd",
                   path |-> "../rstest-bdd"] >>
          [] crate = "rstest-bdd" ->
               << [section |-> "dependencies", name |-> "rstest-bdd-patterns",
                   path |-> "../rstest-bdd-patterns"],
                  [section |-> "dev-dependencies", name |-> "rstest-bdd-macros",
                   path |-> "../rstest-bdd-macros"] >>
          [] crate = "cargo-bdd" ->
               << [section |-> "dependencies", name |-> "rstest-bdd",
                   path |-> "../rstest-bdd"] >> ]

\* iteration order of the REPLACEMENTS dict
REPLACEMENTS_ORDER == << "rstest-bdd-macros", "rstest-bdd", "cargo-bdd" >>

\* package_crate and check_crate as built by _create_cargo_action
package_command == << "cargo", "package", "--allow-dirty", "--no-verify" >>
check_command == << "cargo", "check", "--all-features" >>

\* variant: the live configuration keeps local paths
LiveConfig_keeps_path ==
    [strip_patch |-> FALSE, include_local_path |-> TRUE,
     apply_per_crate |-> TRUE, per_crate_cleanup |-> TRUE]

\* variant: the live configuration strips the patch section up front
LiveConfig_strips_patch ==
    [strip_patch |-> TRUE, include_local_path |-> FALSE,
     apply_per_crate |-> TRUE, per_crate_cleanup |-> TRUE]

\* variant: the live configuration has no per-crate clean-up
LiveConfig_no_cleanup ==
    [strip_patch |-> FALSE, include_local_path |-> FALSE,
     apply_per_crate |-> TRUE, per_crate_cleanup |-> FALSE]

\* the two CrateProcessingConfig values
LiveConfig ==
    [strip_patch |-> FALSE, include_local_path |-> FALSE,
     apply_per_crate |-> TRUE, per_crate_cleanup |-> TRUE]

\* variant: the validate configuration rewrites crate by crate
CheckConfig_per_crate ==
    [strip_patch |-> TRUE, include_local_path |-> TRUE,
     apply_per_crate |-> TRUE, per_crate_cleanup |-> FALSE]

CheckConfig ==
    [strip_patch |-> TRUE, include_local_path |-> TRUE,
     apply_per_crate |-> FALSE, per_crate_cleanup |-> FALSE]

config == IF live THEN LiveConfig ELSE CheckConfig

----------------------------------------------------------------------------
(* Inputs                                                                  *)

\* names a catalogue is built from: three shipped crates and one foreign name
TestCrates == { "rstest-bdd-patterns", "rstest-bdd", "cargo-bdd", "demo-crate" }

NoRepeat(s) == \A i, j \in DOMAIN s : i # j => s[i] # s[j]

SeqsUpTo(S, n) == UNION { [1..k -> S] : k \in 0..n }

Catalogues ==
    { PUBLISHABLE_CRATES } \cup { s \in SeqsUpTo(TestCrates, MaxOrderLen) : NoRepeat(s) }

\* timeout_secs values: two the guard rejects and the positive ones
Timeouts == { -1, 0 } \cup 1..MaxTimeout

\* one [patch.crates-io] entry: the crate name and its path override
PatchEntry(crate) == [name |-> crate, path |-> << "crates", crate >>]

\* a parsed root manifest: version_keys counts how many of the nested keys
\* workspace, workspace.package, workspace.package.version are present (3 =
\* the version is declared); has_patch, other_tables and has_crates_io give
\* the shape of [patch]; crates_io holds the entries of [patch.crates-io]
\* members_kind says what workspace.members is: "absent", an "array", or a
\* value of some "other" type; members holds the entries of the array
Manifest(keys, ver, has_patch, other_tables, has_crates_io, entries) ==
    [version_keys |-> keys, version |-> ver, has_patch |-> has_patch,
     other_tables |-> other_tables, has_crates_io |-> has_crates_io,
     crates_io |-> entries, members_kind |-> "absent", members |-> << >>]

\* one entry of workspace.members: a string, read as a path, or a value of
\* another type
Member(path) == [is_str |-> TRUE, path |-> path]
NonStringMember == [is_str |-> FALSE, path |-> << >>]

\* the document with workspace.members set to an array of entries
WithMembers(document, entries) ==
    [document EXCEPT !.members_kind = "array", !.members = entries]

\* workspace.members of the repository: the crates and one example
SnapshotMembers ==
    [ i \in DOMAIN PUBLISHABLE_CRATES |-> Member(<< "crates", PUBLISHABLE_CRATES[i] >>) ]
        \o << Member(<< "examples", "todo-cli" >>) >>

WORKSPACE_VERSION == "0.1.0"

\* contents the exported snapshot can have: the root manifest may lack
\* [workspace.package].version, may carry [patch.crates-io] entries, and one
\* crate manifest may lack a dependency entry named by REPLACEMENTS
RootManifests ==
    { LET document ==
              Manifest(keys, IF keys = 3 THEN WORKSPACE_VERSION ELSE "", has_patch,
                       {}, has_patch,
                       IF has_patch
                       THEN { PatchEntry(c) : c \in Range(PUBLISHABLE_CRATES) }
                       ELSE {})
      IN IF keys >= 1 THEN WithMembers(document, SnapshotMembers) ELSE document :
        keys \in 0..3, has_patch \in BOOLEAN }

CrateManifests ==
    { [ crate \in DOMAIN REPLACEMENTS |->
          [complete |-> crate # broken, rewritten |-> FALSE,
           version |-> "", has_path |-> TRUE] ] :
        broken \in { "none", "rstest-bdd" } }

NoRootManifest == Manifest(0, "", FALSE, {}, FALSE, {})

NoCrateManifests ==
    [ crate \in DOMAIN REPLACEMENTS |->
        [complete |-> FALSE, rewritten |-> FALSE, version |-> "", has_path |-> TRUE] ]

\* <workspace>/Cargo.toml
ROOT_MANIFEST == "<workspace>/Cargo.toml"

\* no function is being called directly: a run of run_publish_check
NoCall == [fn |-> "none"]

\* a direct call that has not returned yet
Pending == [fn |-> "pending"]

----------------------------------------------------------------------------
(* Text: a string is a sequence of one-character strings                   *)

LowerLetters ==
    << "a","b","c","d","e","f","g","h","i","j","k","l","m",
       "n","o","p","q","r","s","t","u","v","w","x","y","z" >>

UpperLetters ==
    << "A","B","C","D","E","F","G","H","I","J","K","L","M",
       "N","O","P","Q","R","S","T","U","V","W","X","Y","Z" >>

\* the lower-case letter of each upper-case ASCII letter
Lower ==
    [ c \in Range(UpperLetters) |->
        LowerLetters[CHOOSE i \in DOMAIN UpperLetters : UpperLetters[i] = c] ]

\* variant: the stream is compared without being case-folded
casefold_keeps_case(text) == text

\* str.casefold, character by character
casefold(text) ==
    [ i \in DOMAIN text |-> IF text[i] \in DOMAIN Lower THEN Lower[text[i]] ELSE text[i] ]

\* the Python test: marker in text
Contains(marker, text) ==
    \E start \in 0..(Len(text) - Len(marker)) :
        \A k \in 1..Len(marker) : text[start + k] = marker[k]

ALREADY_PUBLISHED_MARKERS ==
    << << "a","l","r","e","a","d","y"," ","e","x","i","s","t","s"," ","o","n"," ","c","r","a","t","e","s",".","i","o"," ","i","n","d","e","x" >>,
       << "a","l","r","e","a","d","y"," ","e","x","i","s","t","s"," ","o","n"," ","c","r","a","t","e","s",".","i","o" >>,
       << "a","l","r","e","a","d","y"," ","u","p","l","o","a","d","e","d" >>,
       << "a","l","r","e","a","d","y"," ","e","x","i","s","t","s" >> >>

ALREADY_PUBLISHED_MARKERS_FOLDED ==
    [ i \in DOMAIN ALREADY_PUBLISHED_MARKERS |-> casefold(ALREADY_PUBLISHED_MARKERS[i]) ]

\* _contains_already_published_marker(result)
contains_already_published_marker(result) ==
    \E stream \in { result.stdout, result.stderr } :
        /\ stream # << >>
        /\ \E i \in DOMAIN ALREADY_PUBLISHED_MARKERS_FOLDED :
               Contains(ALREADY_PUBLISHED_MARKERS_FOLDED[i], casefold(stream))

\* captured output a cargo invocation can produce
TextOk == << "o","k" >>
TextNote == << "n","o","t","e",":"," ","a","l","r","e","a","d","y"," ","e","x","i","s","t","s" >>
TextExistsMixedCase == << "e","r","r","o","r",":"," ","A","l","r","e","a","d","y"," ","E","x","i","s","t","s"," ","o","n"," ","c","r","a","t","e","s",".","i","o"," ","i","n","d","e","x" >>
TextNetworkFailure == << "e","r","r","o","r",":"," ","n","e","t","w","o","r","k"," ","f","a","i","l","u","r","e" >>

\* (return_code, stdout, stderr) triples a finished cargo process can yield
CommandResults ==
    { [return_code |-> 0, stdout |-> TextOk, stderr |-> << >>],
      [return_code |-> 0, stdout |-> << >>, stderr |-> TextNote],
      [return_code |-> 101, stdout |-> << >>, stderr |-> TextExistsMixedCase],
      [return_code |-> 101, stdout |-> << >>, stderr |-> TextNetworkFailure] }

\* what a cargo process does inside the timeout: it exits with a result, or
\* plumbum raises ProcessTimedOut
ProcessOutcomes ==
    { [timed_out |-> FALSE, result |-> r] : r \in CommandResults }
        \cup { [timed_out |-> TRUE,
                result |-> [return_code |-> 0, stdout |-> << >>, stderr |-> << >>]] }

----------------------------------------------------------------------------
(* Command runner                                                          *)

DEFAULT_PUBLISH_TIMEOUT_SECS == 900

Digits == << "0", "1", "2", "3", "4", "5", "6", "7", "8", "9" >>

DigitValue(c) == (CHOOSE i \in DOMAIN Digits : Digits[i] = c) - 1

Whitespace == { " ", "\n", "\t" }

RECURSIVE Strip(_)
\* str.strip()
Strip(text) ==
    IF text = << >> THEN text
    ELSE IF Head(text) \in Whitespace THEN Strip(Tail(text))
    ELSE IF text[Len(text)] \in Whitespace THEN Strip(SubSeq(text, 1, Len(text) - 1))
    ELSE text

\* int(text) accepts an optional sign followed by decimal digits, with
\* whitespace around them
IsInteger(text) ==
    LET bare == Strip(text)
        body == IF bare # << >> /\ Head(bare) \in { "-", "+" }
                THEN Tail(bare) ELSE bare
    IN body # << >> /\ \A i \in DOMAIN body : body[i] \in Range(Digits)

RECURSIVE DigitsValue(_)
DigitsValue(body) ==
    IF body = << >> THEN 0
    ELSE 10 * DigitsValue(SubSeq(body, 1, Len(body) - 1))
            + DigitValue(body[Len(body)])

\* int(text) for a text IsInteger accepts
IntValue(text) ==
    LET bare == Strip(text)
    IN IF Head(bare) = "-" THEN 0 - DigitsValue(Tail(bare))
       ELSE IF Head(bare) = "+" THEN DigitsValue(Tail(bare))
       ELSE DigitsValue(bare)

\* values of os.environ.get("PUBLISH_CHECK_TIMEOUT_SECS"): unset, integers
\* that no tested timeout_secs equals, texts int() rejects
EnvUnset == [set |-> FALSE, value |-> << >>]

EnvValues ==
    { EnvUnset,
      [set |-> TRUE, value |-> << "4", "2" >>],
      [set |-> TRUE, value |-> << "-", "5" >>],
      [set |-> TRUE, value |-> << " ", "7", "\n" >>],
      [set |-> TRUE, value |-> << "s", "o", "o", "n" >>],
      [set |-> TRUE, value |-> << >>] }

\* what one call of _resolve_timeout can read from the environment: the
\* variable is looked up only after the "timeout_secs is not None" return
environ_read(timeout_given) ==
    IF timeout_given THEN { EnvUnset } ELSE EnvValues

\* variant: the environment variable wins over the explicit argument
resolve_timeout_prefers_env(timeout_given, timeout, env) ==
    IF env.set /\ IsInteger(env.value)
    THEN [ok |-> TRUE, value |-> IntValue(env.value)]
    ELSE IF timeout_given THEN [ok |-> TRUE, value |-> timeout]
    ELSE [ok |-> TRUE, value |-> DEFAULT_PUBLISH_TIMEOUT_SECS]

\* variant: a value int() rejects falls back to the default
resolve_timeout_falls_back(timeout_given, timeout, env) ==
    IF timeout_given THEN [ok |-> TRUE, value |-> timeout]
    ELSE IF env.set /\ IsInteger(env.value)
    THEN [ok |-> TRUE, value |-> IntValue(env.value)]
    ELSE [ok |-> TRUE, value |-> DEFAULT_PUBLISH_TIMEOUT_SECS]

\* _resolve_timeout(timeout_secs); timeout_given is "timeout_secs is not None"
resolve_timeout(timeout_given, timeout, env) ==
    IF timeout_given THEN [ok |-> TRUE, value |-> timeout]
    ELSE IF ~env.set THEN [ok |-> TRUE, value |-> DEFAULT_PUBLISH_TIMEOUT_SECS]
    ELSE IF IsInteger(env.value) THEN [ok |-> TRUE, value |-> IntValue(env.value)]
    ELSE [ok |-> FALSE, value |-> 0]

\* build_cargo_command_context: the context a command runs in
build_cargo_command_context(crate, workspace_root, timeout_given, timeout, env) ==
    LET resolved == resolve_timeout(timeout_given, timeout, env)
    IN [ok |-> resolved.ok, crate |-> crate,
        crate_dir |-> workspace_root \o << "crates", crate >>,
        env_overrides |-> [CARGO_HOME |-> workspace_root \o << ".cargo-home" >>],
        timeout_secs |-> resolved.value]

\* the directory the orchestrator itself runs in
PROJECT_ROOT == << "<project>" >>

\* variant: the command runs where the orchestrator runs
execution_environment_inherited(context) ==
    [cwd |-> PROJECT_ROOT, CARGO_HOME |-> context.env_overrides.CARGO_HOME]

\* _execute_cargo_command_with_timeout: the working directory and the
\* CARGO_HOME in force while the process runs
execution_environment(context) ==
    [cwd |-> context.crate_dir, CARGO_HOME |-> context.env_overrides.CARGO_HOME]

\* variant: only the empty command is rejected
validate_cargo_command_rejects_empty_only(command) ==
    command = << >>

\* _validate_cargo_command: TRUE when the command is rejected
validate_cargo_command_rejects(command) ==
    command = << >> \/ command[1] # "cargo"

\* _on_failure of _publish_one_command: TRUE when the failure is handled
on_failure(result) ==
    contains_already_published_marker(result)

\* the on_failure argument of run_cargo_command: None, a handler that accepts
\* every failure, one that declines every failure, and _on_failure
Handlers == { "none", "accept", "decline", "already_published" }

\* on_failure(crate, result) for a supplied handler
call_handler(handler, crate, result) ==
    CASE handler = "accept" -> TRUE
      [] handler = "decline" -> FALSE
      [] handler = "already_published" -> on_failure(result)

\* _handle_command_output: what is printed on the caller's stdout and stderr
handle_command_output(result) ==
    [stdout |-> result.stdout, stderr |-> result.stderr]

\* one LOGGER call: its level, what it reports (the event itself or one of
\* the captured streams) and the captured text it carries
LogEntry(level, about, text) == [level |-> level, about |-> about, text |-> text]

\* variant: _on_failure answers without replaying the output
on_failure_relays_nothing(result) == << >>

\* _on_failure: the _handle_command_output calls it makes
on_failure_relays(result) ==
    IF contains_already_published_marker(result)
    THEN << handle_command_output(result) >> ELSE << >>

\* _on_failure: the LOGGER calls it makes
on_failure_log(result) ==
    IF contains_already_published_marker(result)
    THEN << LogEntry("warning", "already published", << >>) >> ELSE << >>

\* the output calls and LOGGER calls made inside a supplied handler
handler_relays(handler, result) ==
    IF handler = "already_published" THEN on_failure_relays(result) ELSE << >>

handler_log(handler, result) ==
    IF handler = "already_published" THEN on_failure_log(result) ELSE << >>

\* _handle_command_failure: the LOGGER.error calls before SystemExit
handle_command_failure_log(result) ==
    << LogEntry("error", "command failed", << >>) >>
        \o (IF result.stdout # << >>
            THEN << LogEntry("error", "stdout", result.stdout) >> ELSE << >>)
        \o (IF result.stderr # << >>
            THEN << LogEntry("error", "stderr", result.stderr) >> ELSE << >>)

\* variant: the handler is called but its answer is dropped
handle_cargo_result_drops_answer(crate, result, handler) ==
    IF result.return_code = 0
    THEN [outcome |-> "ok", handler_calls |-> << >>, exit_code |-> 0,
          relayed |-> << handle_command_output(result) >>, log |-> << >>]
    ELSE [outcome |-> "failed",
          handler_calls |-> IF handler = "none" THEN << >>
                            ELSE << [crate |-> crate, result |-> result] >>,
          exit_code |-> result.return_code,
          relayed |-> handler_relays(handler, result),
          log |-> handler_log(handler, result) \o handle_command_failure_log(result)]

\* variant: the handler is asked about every result, exit code 0 included
handle_cargo_result_asks_on_success(crate, result, handler) ==
    IF handler # "none" /\ call_handler(handler, crate, result)
    THEN [outcome |-> "handled",
          handler_calls |-> << [crate |-> crate, result |-> result] >>,
          exit_code |-> 0,
          relayed |-> handler_relays(handler, result),
          log |-> handler_log(handler, result)]
    ELSE IF result.return_code = 0
    THEN [outcome |-> "ok",
          handler_calls |-> IF handler = "none" THEN << >>
                            ELSE << [crate |-> crate, result |-> result] >>,
          exit_code |-> 0,
          relayed |-> << handle_command_output(result) >>, log |-> << >>]
    ELSE [outcome |-> "failed",
          handler_calls |-> IF handler = "none" THEN << >>
                            ELSE << [crate |-> crate, result |-> result] >>,
          exit_code |-> result.return_code,
          relayed |-> << >>, log |-> handle_command_failure_log(result)]

\* _handle_cargo_result: how a finished invocation is classified, the calls
\* made to on_failure, the exit code named by the SystemExit message of
\* _handle_command_failure (0 when nothing is raised), the output replayed
\* and the log entries written
handle_cargo_result(crate, result, handler) ==
    IF result.return_code = 0
    THEN [outcome |-> "ok", handler_calls |-> << >>, exit_code |-> 0,
          relayed |-> << handle_command_output(result) >>, log |-> << >>]
    ELSE IF handler # "none"
    THEN IF call_handler(handler, crate, result)
         THEN [outcome |-> "handled",
               handler_calls |-> << [crate |-> crate, result |-> result] >>,
               exit_code |-> 0,
               relayed |-> handler_relays(handler, result),
               log |-> handler_log(handler, result)]
         ELSE [outcome |-> "failed",
               handler_calls |-> << [crate |-> crate, result |-> result] >>,
               exit_code |-> result.return_code,
               relayed |-> handler_relays(handler, result),
               log |-> handler_log(handler, result)
                          \o handle_command_failure_log(result)]
    ELSE [outcome |-> "failed", handler_calls |-> << >>,
          exit_code |-> result.return_code,
          relayed |-> << >>, log |-> handle_command_failure_log(result)]

\* variant: a timed-out invocation is dispatched like a finished one
run_cargo_command_dispatches_timeout(crate, command, process, handler) ==
    IF validate_cargo_command_rejects(command)
    THEN [outcome |-> "invalid", executions |-> 0, handler_calls |-> << >>,
          exit_code |-> 0, relayed |-> << >>, log |-> << >>]
    ELSE LET handled == handle_cargo_result(crate,
                            [process.result EXCEPT !.return_code =
                                IF process.timed_out THEN 124 ELSE @], handler)
         IN [outcome |-> handled.outcome, executions |-> 1,
             handler_calls |-> handled.handler_calls,
             exit_code |-> handled.exit_code,
             relayed |-> handled.relayed, log |-> handled.log]

\* run_cargo_command: validation, execution under the timeout, dispatch;
\* executions counts the processes started
run_cargo_command(crate, command, process, handler) ==
    IF validate_cargo_command_rejects(command)
    THEN [outcome |-> "invalid", executions |-> 0, handler_calls |-> << >>,
          exit_code |-> 0, relayed |-> << >>, log |-> << >>]
    ELSE IF process.timed_out
    THEN [outcome |-> "timeout", executions |-> 1, handler_calls |-> << >>,
          exit_code |-> 0, relayed |-> << >>,
          log |-> << LogEntry("error", "timed out", << >>) >>]
    ELSE LET handled == handle_cargo_result(crate, process.result, handler)
         IN [outcome |-> handled.outcome, executions |-> 1,
             handler_calls |-> handled.handler_calls,
             exit_code |-> handled.exit_code,
             relayed |-> handled.relayed, log |-> handled.log]

\* variant: a handled failure still falls through to the fatal path
command_raises_on_handled(outcome) ==
    outcome # "ok"

\* variant: an unhandled non-zero exit is logged but not raised
command_raises_only_timeout(outcome) ==
    outcome \in { "invalid", "timeout" }

\* TRUE when run_cargo_command leaves by raising (ValueError or SystemExit)
command_raises(outcome) ==
    outcome \in { "invalid", "timeout", "failed" }

command_error(outcome) ==
    CASE outcome = "invalid" -> "run_cargo_command only accepts cargo invocations"
      [] outcome = "timeout" -> "cargo command timed out"
      [] outcome = "failed" -> "cargo command failed"
      [] OTHER -> ""

\* variant: the loop of publish_crate_commands has no break
stop_publishing_never(handled) == FALSE

\* the loop of publish_crate_commands stops after this command
stop_publishing(handled) == handled

\* variant: every crate is checked, none packaged
check_action_command_always_check(crate) == check_command

\* _crate_action of _process_crates_for_check
check_action_command(crate) ==
    IF crate = "rstest-bdd-patterns" THEN package_command ELSE check_command

----------------------------------------------------------------------------
(* Manifest rewriter                                                       *)

\* one key of a dependency table with its value, values written as text
Item(key, value) == [key |-> key, value |-> value]

\* a dependency of a section: missing, a bare version string, or a table
NoDependency == [kind |-> "absent", items |-> << >>]
StringDependency == [kind |-> "string", items |-> << >>]
TableDependency(items) == [kind |-> "table", items |-> items]

\* the dependency names the tested manifests mention
DependencyNames ==
    { "rstest-bdd-patterns", "rstest-bdd", "rstest-bdd-macros", "serde" }

SectionNames == { "dependencies", "dev-dependencies" }

DroppedKeys == { "workspace", "path", "version" }

IsKeptItem(item) == item.key \notin DroppedKeys

\* variant: nothing of the existing entry is retained
extract_existing_items_drops_all(value) == << >>

\* extract_existing_items: the items of a table other than workspace, path
\* and version, in their order; nothing for a value that is not a table
extract_existing_items(value) ==
    IF value.kind = "table" THEN SelectSeq(value.items, IsKeptItem) ELSE << >>

\* build_inline_dependency: path when requested, version, then the extras
build_inline_dependency(extra_items, path, ver, include_local_path) ==
    TableDependency(
        (IF include_local_path THEN << Item("path", path) >> ELSE << >>)
            \o << Item("version", ver) >> \o extra_items)

\* update_dependency: replaces document[patch.section][patch.name]
update_dependency(document, patch, ver, include_local_path) ==
    IF ~document[patch.section].present
    THEN [error |-> "expected section", document |-> document]
    ELSE IF document[patch.section].entries[patch.name].kind = "absent"
    THEN [error |-> "expected dependency", document |-> document]
    ELSE [error |-> "",
          document |->
              [document EXCEPT ![patch.section].entries[patch.name] =
                  build_inline_dependency(
                      extract_existing_items(@), patch.path, ver,
                      include_local_path)]]

RECURSIVE update_dependencies(_, _, _, _)
\* the for loop of apply_replacements over the crate's patches
update_dependencies(patches, document, ver, include_local_path) ==
    IF patches = << >> THEN [error |-> "", document |-> document]
    ELSE LET step == update_dependency(document, Head(patches), ver,
                                       include_local_path)
         IN IF step.error # "" THEN step
            ELSE update_dependencies(Tail(patches), step.document, ver,
                                     include_local_path)

\* variant: the manifest is written after every update_dependency call
apply_replacements_writes_each_patch(crate, document, ver, include_local_path) ==
    IF crate \notin DOMAIN REPLACEMENTS
    THEN [error |-> "unknown crate", document |-> document, written |-> FALSE]
    ELSE LET done == update_dependencies(REPLACEMENTS[crate], document, ver,
                                         include_local_path)
         IN [error |-> done.error, document |-> done.document,
             written |-> done.document # document \/ done.error = ""]

\* apply_replacements: the manifest is written after every patch succeeded
apply_replacements(crate, document, ver, include_local_path) ==
    IF crate \notin DOMAIN REPLACEMENTS
    THEN [error |-> "unknown crate", document |-> document, written |-> FALSE]
    ELSE LET done == update_dependencies(REPLACEMENTS[crate], document, ver,
                                         include_local_path)
         IN IF done.error # ""
            THEN [error |-> done.error, document |-> document, written |-> FALSE]
            ELSE [error |-> "", document |-> done.document, written |-> TRUE]

RECURSIVE apply_targets(_, _, _, _)
\* the for loop of apply_workspace_replacements over targets; apply_replacements
\* raises SystemExit when a configured section or dependency is missing
apply_targets(targets, manifests, ver, include_local_path) ==
    IF targets = << >> THEN [manifests |-> manifests, error |-> ""]
    ELSE LET crate == Head(targets) IN
         IF crate \notin DOMAIN REPLACEMENTS
         THEN apply_targets(Tail(targets), manifests, ver, include_local_path)
         ELSE IF ~manifests[crate].complete
         THEN [manifests |-> manifests, error |-> "expected dependency"]
         ELSE apply_targets(
                  Tail(targets),
                  [manifests EXCEPT ![crate] =
                      [complete |-> TRUE, rewritten |-> TRUE, version |-> ver,
                       has_path |-> include_local_path]],
                  ver, include_local_path)

\* variant: a requested name without a REPLACEMENTS entry is an error
apply_workspace_replacements_rejects_unknown(manifests, ver, include_local_path, crates_given, crates) ==
    IF crates_given /\ \E i \in DOMAIN crates : crates[i] \notin DOMAIN REPLACEMENTS
    THEN [manifests |-> manifests, error |-> "unknown crates"]
    ELSE apply_targets(IF crates_given THEN crates ELSE REPLACEMENTS_ORDER,
                       manifests, ver, include_local_path)

apply_workspace_replacements(manifests, ver, include_local_path, crates_given, crates) ==
    apply_targets(IF crates_given THEN crates ELSE REPLACEMENTS_ORDER,
                  manifests, ver, include_local_path)

----------------------------------------------------------------------------
(* Workspace export                                                        *)

RECURSIVE Escapes(_, _)
\* a relative path, read component by component from depth levels below the
\* destination, leaves the destination at some point
Escapes(path, depth) ==
    IF path = << >> THEN FALSE
    ELSE IF Head(path) = ".."
    THEN depth = 0 \/ Escapes(Tail(path), depth - 1)
    ELSE Escapes(Tail(path), depth + 1)

RECURSIVE Depth(_, _)
\* how many levels below the destination a path inside it ends
Depth(path, depth) ==
    IF path = << >> THEN depth
    ELSE Depth(Tail(path), IF Head(path) = ".." THEN depth - 1 ELSE depth + 1)

\* one archive member: its type, its name (absolute or not) and, for links,
\* the link name
TarEntry(type, absolute, name, link_absolute, linkname) ==
    [type |-> type, absolute |-> absolute, name |-> name,
     link_absolute |-> link_absolute, linkname |-> linkname]

\* variant: the "tar" filter, which does not look at link targets
data_filter_ignores_links(entry) ==
    IF Escapes(entry.name, 0) THEN "OutsideDestinationError"
    ELSE IF entry.type = "device" THEN "SpecialFileError"
    ELSE "ok"

\* tarfile.data_filter as extractall(destination, filter="data") applies it:
\* leading slashes of the name are stripped, then the name, the member type
\* and the link target are examined; "ok" or the FilterError raised
data_filter(entry) ==
    IF Escapes(entry.name, 0) THEN "OutsideDestinationError"
    ELSE IF entry.type = "device" THEN "SpecialFileError"
    ELSE IF entry.type \in { "symlink", "hardlink" }
    THEN IF entry.link_absolute THEN "AbsoluteLinkError"
         ELSE IF Escapes(entry.linkname,
                         IF entry.type = "symlink"
                         THEN Depth(entry.name, 0) - 1 ELSE 0)
         THEN "LinkOutsideDestinationError"
         ELSE "ok"
    ELSE "ok"

RECURSIVE extractall(_, _)
\* tar.extractall: members are extracted in archive order until a filter
\* error is raised (errorlevel 1)
extractall(archive, extracted) ==
    IF archive = << >> THEN [error |-> "", extracted |-> extracted]
    ELSE LET verdict == data_filter(Head(archive))
         IN IF verdict # "ok" THEN [error |-> verdict, extracted |-> extracted]
            ELSE extractall(Tail(archive), Append(extracted, Head(archive)))

\* export_workspace: git archive, then extraction of the tarball
export_workspace(git, archive) ==
    IF git.return_code # 0
    THEN [error |-> "git archive failed", exit_code |-> git.return_code,
          detail |-> Strip(IF git.stderr # << >> THEN git.stderr ELSE git.stdout),
          extracted |-> << >>]
    ELSE LET done == extractall(archive, << >>)
         IN [error |-> done.error, exit_code |-> 0, detail |-> << >>,
             extracted |-> done.extracted]

\* an absolute path lies within the destination when it names the
\* destination and what follows does not climb out of it
AbsoluteWithin(path) ==
    /\ path # << >>
    /\ Head(path) = "<destination>"
    /\ ~Escapes(Tail(path), 0)

\* _validated_members, one member: "" or the SystemExit message
member_refusal(entry) ==
    IF entry.type \notin { "file", "dir", "symlink", "hardlink" }
    THEN "refusing to extract unsupported tar entry type"
    ELSE IF (IF entry.absolute THEN ~AbsoluteWithin(entry.name)
             ELSE Escapes(entry.name, 0))
    THEN "refusing to extract member outside destination"
    ELSE IF /\ entry.type \in { "symlink", "hardlink" }
            /\ IF entry.link_absolute THEN ~AbsoluteWithin(entry.linkname)
               ELSE Escapes(entry.linkname,
                            IF entry.type = "symlink"
                            THEN Depth(entry.name, 0) - 1 ELSE 0)
    THEN "refusing to extract link entry outside destination"
    ELSE ""

RECURSIVE validated_members(_)
\* _validated_members: the first refusal met in archive order, if any
validated_members(archive) ==
    IF archive = << >> THEN ""
    ELSE IF member_refusal(Head(archive)) # "" THEN member_refusal(Head(archive))
    ELSE validated_members(Tail(archive))

\* variant: the members before the first refused one are extracted
extract_archive_checks_lazily(archive, filter_supported) ==
    IF validated_members(archive) # ""
    THEN LET first == CHOOSE i \in DOMAIN archive :
                          /\ member_refusal(archive[i]) # ""
                          /\ \A j \in 1..(i - 1) : member_refusal(archive[j]) = ""
         IN [error |-> validated_members(archive),
             extracted |-> SubSeq(archive, 1, first - 1)]
    ELSE IF filter_supported THEN extractall(archive, << >>)
    ELSE [error |-> "", extracted |-> archive]

\* _extract_archive: validation of every member, then _extract_members,
\* with filter="data" where the interpreter supports it (3.12 and later)
extract_archive(archive, filter_supported) ==
    IF validated_members(archive) # ""
    THEN [error |-> validated_members(archive), extracted |-> << >>]
    ELSE IF filter_supported THEN extractall(archive, << >>)
    ELSE [error |-> "", extracted |-> archive]

----------------------------------------------------------------------------
(* Manifest pruning                                                        *)

\* Path(entry).name: the final path component
PathName(path) == IF path = << >> THEN "" ELSE path[Len(path)]

\* variant: only string entries are examined, other values stay
member_removed_strings_only(entry) ==
    entry.is_str /\ PathName(entry.path) \notin Range(PUBLISHABLE_CRATES)

\* the test of _filter_workspace_members: TRUE when the entry is deleted
member_removed(entry) ==
    ~entry.is_str \/ PathName(entry.path) \notin Range(PUBLISHABLE_CRATES)

RECURSIVE filter_workspace_members(_, _)
\* _filter_workspace_members: the loop from index down to 1, deleting in place
filter_workspace_members(members, index) ==
    IF index = 0 THEN members
    ELSE filter_workspace_members(
             IF member_removed(members[index])
             THEN SubSeq(members, 1, index - 1) \o SubSeq(members, index + 1, Len(members))
             ELSE members,
             index - 1)

\* prune_workspace_members: the document left behind and whether it was
\* written; a document without [workspace] has version_keys = 0
prune_workspace_members(document) ==
    IF document.version_keys = 0 \/ document.members_kind # "array"
    THEN [document |-> document, written |-> FALSE]
    ELSE LET kept == filter_workspace_members(document.members, Len(document.members))
         IN IF kept = document.members
            THEN [document |-> document, written |-> FALSE]
            ELSE [document |-> [document EXCEPT !.members = kept], written |-> TRUE]

\* the two "del" clean-ups shared by remove_patch_entry and
\* strip_patch_section: an emptied [patch] table is deleted
without_crates_io(document) ==
    [document EXCEPT !.has_crates_io = FALSE, !.crates_io = {},
                     !.has_patch = document.other_tables # {}]

\* variant: the whole [patch.crates-io] table goes with the entry
remove_patch_entry_drops_table(document, crate) ==
    IF ~document.has_patch THEN [document |-> document, written |-> FALSE]
    ELSE IF ~document.has_crates_io
            \/ crate \notin { e.name : e \in document.crates_io }
    THEN [document |-> document, written |-> FALSE]
    ELSE [document |-> without_crates_io(document), written |-> TRUE]

\* remove_patch_entry: the document left behind and whether it was written
remove_patch_entry(document, crate) ==
    IF ~document.has_patch THEN [document |-> document, written |-> FALSE]
    ELSE IF ~document.has_crates_io
            \/ crate \notin { e.name : e \in document.crates_io }
    THEN [document |-> document, written |-> FALSE]
    ELSE LET remaining == { e \in document.crates_io : e.name # crate }
         IN [document |-> IF remaining = {} THEN without_crates_io(document)
                          ELSE [document EXCEPT !.crates_io = remaining],
             written |-> TRUE]

\* variant: the whole [patch] table is deleted, other registries included
strip_patch_section_drops_patch(document) ==
    IF ~document.has_patch THEN [document |-> document, written |-> FALSE]
    ELSE IF ~document.has_crates_io THEN [document |-> document, written |-> FALSE]
    ELSE [document |-> [document EXCEPT !.has_crates_io = FALSE, !.crates_io = {},
                                        !.has_patch = FALSE, !.other_tables = {}],
          written |-> TRUE]

\* strip_patch_section: the document left behind and whether it was written
strip_patch_section(document) ==
    IF ~document.has_patch THEN [document |-> document, written |-> FALSE]
    ELSE IF ~document.has_crates_io THEN [document |-> document, written |-> FALSE]
    ELSE [document |-> without_crates_io(document), written |-> TRUE]

\* variant: the message names no file
workspace_version_message_without_path(manifest, document) ==
    IF document.version_keys = 3
    THEN [ok |-> TRUE, value |-> document.version, message |-> << >>]
    ELSE [ok |-> FALSE, value |-> "",
          message |-> << "expected [workspace.package].version",
                         "; [workspace.package] must define a version" >>]

\* workspace_version: the declared version, or the parts of the SystemExit
\* message; the excerpt is appended when the text has a [workspace line
workspace_version(manifest, document) ==
    IF document.version_keys = 3
    THEN [ok |-> TRUE, value |-> document.version, message |-> << >>]
    ELSE [ok |-> FALSE, value |-> "",
          message |->
              << "expected [workspace.package].version", " in ", manifest,
                 "; [workspace.package] must define a version" >>
              \o (IF document.version_keys >= 1
                  THEN << "Workspace manifest excerpt:" >> ELSE << >>)]

----------------------------------------------------------------------------
(* Orchestrator                                                            *)

Ev(op) ==
    [op |-> op, crate |-> "", crates_given |-> FALSE, crates |-> << >>,
     include_local_path |-> FALSE, version |-> "", command |-> << >>,
     timeout |-> 0, timed_out |-> FALSE, return_code |-> 0, marker |-> FALSE,
     executions |-> 0, consulted |-> FALSE, message |-> << >>,
     cwd |-> << >>, cargo_home |-> << >>, entries |-> {}, outcome |-> "ok"]

\* variant: the guard compares with < instead of <=
timeout_rejected_strict(t) == t < 0

\* run_publish_check: the timeout guard
timeout_rejected(t) == t <= 0

\* variant: the catalogue guard is missing
order_rejected_never(order) == FALSE

\* variant: the catalogue guard is inverted
order_rejected_inverted(order) == order # << >>

\* _process_crates: the catalogue guard
order_rejected(order) == order = << >>

\* variant: rmtree is never called
cleanup_workspace_never_removes(keep, exists) == exists

\* variant: rmtree is called whatever keep_tmp says
cleanup_workspace_always_removes(keep, exists) == FALSE

\* the finally block of run_publish_check: is the directory on disk afterwards
cleanup_workspace(keep, exists) == IF keep THEN exists ELSE FALSE

\* the finally block of run_publish_check: lines printed about the directory
preserve_lines(keep) == IF keep THEN 1 ELSE 0

\* where the for loop of _process_crates goes for position i
\* variant: after the last crate the workflow does not return
LoopHead_never_returns(i) ==
    IF i > Len(CRATE_ORDER) THEN "process_crates"
    ELSE IF config.apply_per_crate THEN "apply_crate" ELSE "action"

\* the position after crate i - 1: the next crate's first step, or, after the
\* last crate, the return of _process_crates into the finally block
LoopHead(i) ==
    IF i > Len(CRATE_ORDER) THEN "finally"
    ELSE IF config.apply_per_crate THEN "apply_crate" ELSE "action"

\* leaving crate_action normally: cleanup when configured, else next crate
AfterAction ==
    IF config.per_crate_cleanup
    THEN /\ pc' = "cleanup"
         /\ idx' = idx
    ELSE /\ pc' = LoopHead(idx + 1)
         /\ idx' = idx + 1

Init ==
    /\ keep_tmp \in BOOLEAN
    /\ timeout_secs \in Timeouts
    /\ live \in BOOLEAN
    /\ CRATE_ORDER \in Catalogues
    /\ pc = "start"
    /\ error = ""
    /\ tmp_created = FALSE
    /\ workspace_exists = FALSE
    /\ preserved = 0
    /\ root_manifest = NoRootManifest
    /\ crate_manifests = NoCrateManifests
    /\ version = ""
    /\ idx = 1
    /\ cmd_idx = 1
    /\ ops = << >>
    /\ call = NoCall
    /\ ret = NoCall

CheckTimeout ==
    /\ pc = "start"
    /\ IF timeout_rejected(timeout_secs)
       THEN /\ pc' = "done"
            /\ error' = "timeout-secs must be a positive integer"
       ELSE /\ pc' = "mkdtemp"
            /\ error' = error
    /\ UNCHANGED << call, ret, keep_tmp, timeout_secs, live, CRATE_ORDER, tmp_created,
                    workspace_exists, preserved, root_manifest, crate_manifests,
                    version, idx, cmd_idx, ops >>

\* Path(tempfile.mkdtemp()): the directory of this run
workspace == << "<workspace>" >>

Mkdtemp ==
    /\ pc = "mkdtemp"
    /\ tmp_created' = TRUE
    /\ workspace_exists' = TRUE
    /\ ops' = Append(ops, Ev("mkdtemp"))
    /\ pc' = "export"
    /\ UNCHANGED << call, ret, keep_tmp, timeout_secs, live, CRATE_ORDER, error, preserved,
                    root_manifest, crate_manifests, version, idx, cmd_idx >>

ExportWorkspace ==
    /\ pc = "export"
    /\ \E git_ok \in BOOLEAN, rm \in RootManifests, cm \in CrateManifests :
          IF git_ok
          THEN /\ root_manifest' = rm
               /\ crate_manifests' = cm
               /\ ops' = Append(ops, [Ev("export") EXCEPT
                                         !.entries = { e.name : e \in rm.crates_io }])
               /\ pc' = "prune"
               /\ error' = error
          ELSE /\ ops' = Append(ops, [Ev("export") EXCEPT !.outcome = "raised"])
               /\ pc' = "finally"
               /\ error' = "git archive failed"
               /\ UNCHANGED << root_manifest, crate_manifests >>
    /\ UNCHANGED << call, ret, keep_tmp, timeout_secs, live, CRATE_ORDER, tmp_created,
                    workspace_exists, preserved, version, idx, cmd_idx >>

PruneWorkspaceMembers ==
    /\ pc = "prune"
    /\ \E io_ok \in BOOLEAN :
          IF io_ok
          THEN /\ root_manifest' = prune_workspace_members(root_manifest).document
               /\ ops' = Append(ops, Ev("prune"))
               /\ pc' = "process"
               /\ error' = error
          ELSE /\ ops' = Append(ops, [Ev("prune") EXCEPT !.outcome = "raised"])
               /\ pc' = "finally"
               /\ error' = "cannot read or parse manifest"
               /\ UNCHANGED root_manifest
    /\ UNCHANGED << call, ret, keep_tmp, timeout_secs, live, CRATE_ORDER, tmp_created,
                    workspace_exists, preserved, crate_manifests,
                    version, idx, cmd_idx >>

EnterProcessCrates ==
    /\ pc = "process"
    /\ IF order_rejected(CRATE_ORDER)
       THEN /\ pc' = "finally"
            /\ error' = "CRATE_ORDER must not be empty"
       ELSE /\ pc' = IF config.strip_patch THEN "strip" ELSE "version"
            /\ error' = error
    /\ UNCHANGED << call, ret, keep_tmp, timeout_secs, live, CRATE_ORDER, tmp_created,
                    workspace_exists, preserved, root_manifest, crate_manifests,
                    version, idx, cmd_idx, ops >>

StripPatchSection ==
    /\ pc = "strip"
    /\ \E io_ok \in BOOLEAN :
          IF io_ok
          THEN /\ root_manifest' = strip_patch_section(root_manifest).document
               /\ ops' = Append(ops, Ev("strip"))
               /\ pc' = "version"
               /\ error' = error
          ELSE /\ ops' = Append(ops, [Ev("strip") EXCEPT !.outcome = "raised"])
               /\ pc' = "finally"
               /\ error' = "cannot read or write manifest"
               /\ UNCHANGED root_manifest
    /\ UNCHANGED << call, ret, keep_tmp, timeout_secs, live, CRATE_ORDER, tmp_created,
                    workspace_exists, preserved, crate_manifests, version, idx,
                    cmd_idx >>

WorkspaceVersion ==
    /\ pc = "version"
    /\ LET read == workspace_version(ROOT_MANIFEST, root_manifest)
       IN IF read.ok
          THEN /\ version' = read.value
               /\ ops' = Append(ops, Ev("version"))
               /\ pc' = IF config.apply_per_crate THEN LoopHead(1) ELSE "apply_all"
               /\ error' = error
          ELSE /\ ops' = Append(ops, [Ev("version") EXCEPT !.outcome = "raised",
                                                          !.message = read.message])
               /\ pc' = "finally"
               /\ error' = read.message[1]
               /\ UNCHANGED version
    /\ UNCHANGED << call, ret, keep_tmp, timeout_secs, live, CRATE_ORDER, tmp_created,
                    workspace_exists, preserved, root_manifest, crate_manifests,
                    idx, cmd_idx >>

\* variant: a SystemExit of the rewrite is swallowed and the workflow goes on
Apply_continues(crates_given, crates, next_pc) ==
    LET r == apply_workspace_replacements(crate_manifests, version,
                 config.include_local_path, crates_given, crates)
        ev == [Ev("apply") EXCEPT !.crates_given = crates_given,
                                  !.crates = crates,
                                  !.version = version,
                                  !.include_local_path = config.include_local_path]
    IN /\ crate_manifests' = r.manifests
       /\ ops' = Append(ops, IF r.error = "" THEN ev
                             ELSE [ev EXCEPT !.outcome = "raised"])
       /\ pc' = next_pc
       /\ error' = IF r.error = "" THEN error ELSE r.error
       /\ UNCHANGED << call, ret, keep_tmp, timeout_secs, live, CRATE_ORDER, tmp_created,
                       workspace_exists, preserved, root_manifest, version,
                       idx, cmd_idx >>

\* both call sites of apply_workspace_replacements in _process_crates
Apply(crates_given, crates, next_pc) ==
    LET r == apply_workspace_replacements(crate_manifests, version,
                 config.include_local_path, crates_given, crates)
        ev == [Ev("apply") EXCEPT !.crates_given = crates_given,
                                  !.crates = crates,
                                  !.version = version,
                                  !.include_local_path = config.include_local_path]
    IN /\ crate_manifests' = r.manifests
       /\ IF r.error = ""
          THEN /\ ops' = Append(ops, ev)
               /\ pc' = next_pc
               /\ error' = error
          ELSE /\ ops' = Append(ops, [ev EXCEPT !.outcome = "raised"])
               /\ pc' = "finally"
               /\ error' = r.error
       /\ UNCHANGED << call, ret, keep_tmp, timeout_secs, live, CRATE_ORDER, tmp_created,
                       workspace_exists, preserved, root_manifest, version,
                       idx, cmd_idx >>

ApplyAll ==
    /\ pc = "apply_all"
    /\ Apply(FALSE, << >>, LoopHead(1))

ApplyCrate ==
    /\ pc = "apply_crate"
    /\ Apply(TRUE, << CRATE_ORDER[idx] >>, "action")

\* one run_cargo_command call made for the crate at position idx, in the
\* context build_cargo_command_context resolves for it
Invoke(command, handler, last_command) ==
    \E process \in ProcessOutcomes :
       LET crate == CRATE_ORDER[idx]
           run == run_cargo_command(crate, command, process, handler)
           outcome == run.outcome
           ev == [Ev("cmd") EXCEPT !.crate = crate,
                                   !.command = command,
                                   !.timed_out = process.timed_out,
                                   !.return_code = process.result.return_code,
                                   !.marker =
                                       contains_already_published_marker(process.result),
                                   !.executions = run.executions,
                                   !.consulted = run.handler_calls # << >>,
                                   !.outcome = outcome]
       IN \E env \in environ_read(TRUE) :
          LET context == build_cargo_command_context(crate, workspace, TRUE,
                                                     timeout_secs, env)
              running == execution_environment(context)
          IN IF ~context.ok
             THEN /\ pc' = "finally"
                  /\ error' = "PUBLISH_CHECK_TIMEOUT_SECS must be an integer"
                  /\ UNCHANGED << ops, idx, cmd_idx >>
             ELSE /\ ops' = Append(ops, [ev EXCEPT !.timeout = context.timeout_secs,
                                                   !.cwd = running.cwd,
                                                   !.cargo_home = running.CARGO_HOME])
                  /\ IF command_raises(outcome)
                     THEN /\ pc' = "finally"
                          /\ error' = command_error(outcome)
                          /\ UNCHANGED << idx, cmd_idx >>
                     ELSE /\ error' = error
                          /\ IF last_command \/ stop_publishing(outcome = "handled")
                             THEN /\ AfterAction
                                  /\ cmd_idx' = 1
                             ELSE /\ cmd_idx' = cmd_idx + 1
                                  /\ UNCHANGED << pc, idx >>

\* variant: the package and check commands get the live classifier
cargo_subcommand_on_failure_already_published == "already_published"

\* _run_cargo_subcommand: run_cargo_command is called with the context and
\* the command only, so on_failure keeps its default None
cargo_subcommand_on_failure == "none"

\* crate_action of the validate pass: package_crate or check_crate
CheckCrateAction ==
    /\ pc = "action"
    /\ ~live
    /\ Invoke(check_action_command(CRATE_ORDER[idx]), cargo_subcommand_on_failure, TRUE)
    /\ UNCHANGED << call, ret, keep_tmp, timeout_secs, live, CRATE_ORDER, tmp_created,
                    workspace_exists, preserved, root_manifest, crate_manifests,
                    version >>

\* variant: a crate without an entry gets an empty command sequence
live_commands_default_empty(crate) ==
    [raised |-> FALSE,
     commands |-> IF crate \in DOMAIN LIVE_PUBLISH_COMMANDS
                  THEN LIVE_PUBLISH_COMMANDS[crate] ELSE << >>]

\* publish_crate_commands: LIVE_PUBLISH_COMMANDS[crate] inside try/except
\* KeyError
live_commands(crate) ==
    IF crate \in DOMAIN LIVE_PUBLISH_COMMANDS
    THEN [raised |-> FALSE, commands |-> LIVE_PUBLISH_COMMANDS[crate]]
    ELSE [raised |-> TRUE, commands |-> << >>]

\* publish_crate_commands: the crate has no entry in LIVE_PUBLISH_COMMANDS
MissingLiveCommands ==
    /\ pc = "action"
    /\ live
    /\ live_commands(CRATE_ORDER[idx]).raised
    /\ pc' = "finally"
    /\ error' = "missing live publish commands"
    /\ UNCHANGED << call, ret, keep_tmp, timeout_secs, live, CRATE_ORDER, tmp_created,
                    workspace_exists, preserved, root_manifest, crate_manifests,
                    version, idx, cmd_idx, ops >>

\* publish_crate_commands: one iteration, i.e. one _publish_one_command call
PublishOneCommand ==
    /\ pc = "action"
    /\ live
    /\ ~live_commands(CRATE_ORDER[idx]).raised
    /\ LET commands == live_commands(CRATE_ORDER[idx]).commands
       IN IF commands = << >>
          THEN /\ AfterAction
               /\ cmd_idx' = 1
               /\ UNCHANGED << ops, error >>
          ELSE Invoke(commands[cmd_idx], "already_published", cmd_idx = Len(commands))
    /\ UNCHANGED << call, ret, keep_tmp, timeout_secs, live, CRATE_ORDER, tmp_created,
                    workspace_exists, preserved, root_manifest, crate_manifests,
                    version >>

\* config.per_crate_cleanup(manifest, crate), i.e. remove_patch_entry
PerCrateCleanup ==
    /\ pc = "cleanup"
    /\ root_manifest' = remove_patch_entry(root_manifest, CRATE_ORDER[idx]).document
    /\ ops' = Append(ops, [Ev("remove_patch") EXCEPT !.crate = CRATE_ORDER[idx]])
    /\ idx' = idx + 1
    /\ pc' = LoopHead(idx + 1)
    /\ UNCHANGED << call, ret, keep_tmp, timeout_secs, live, CRATE_ORDER, error, tmp_created,
                    workspace_exists, preserved, crate_manifests, version, cmd_idx >>

\* the finally block of run_publish_check
Finally ==
    /\ pc = "finally"
    /\ workspace_exists' = cleanup_workspace(keep_tmp, workspace_exists)
    /\ preserved' = preserved + preserve_lines(keep_tmp)
    /\ ops' = Append(ops, Ev(IF keep_tmp THEN "preserve" ELSE "rmtree"))
    /\ pc' = "done"
    /\ UNCHANGED << call, ret, keep_tmp, timeout_secs, live, CRATE_ORDER, error, tmp_created,
                    root_manifest, crate_manifests, version, idx, cmd_idx >>

Next ==
    \/ CheckTimeout
    \/ Mkdtemp
    \/ ExportWorkspace
    \/ PruneWorkspaceMembers
    \/ EnterProcessCrates
    \/ StripPatchSection
    \/ WorkspaceVersion
    \/ ApplyAll
    \/ ApplyCrate
    \/ CheckCrateAction
    \/ MissingLiveCommands
    \/ PublishOneCommand
    \/ PerCrateCleanup
    \/ Finally

Spec == Init /\ [][Next]_vars

\* every call of the workflow returns or raises: the manifest helpers are
\* finite loops and a cargo process is bounded by its timeout, so a run that
\* can take a step eventually takes one
FairCatalogues ==
    { PUBLISHABLE_CRATES }
        \cup { s \in SeqsUpTo(TestCrates, MaxFairOrderLen) : NoRepeat(s) }

FairInit == Init /\ CRATE_ORDER \in FairCatalogues

FairSpec == FairInit /\ [][Next]_vars /\ WF_vars(Next)

----------------------------------------------------------------------------
(* Direct calls: one function applied to one set of arguments              *)

ToUpper(c) ==
    IF c \in Range(LowerLetters)
    THEN UpperLetters[CHOOSE i \in DOMAIN LowerLetters : LowerLetters[i] = c]
    ELSE c

\* text with the letters at positions i, i % period = phase, in upper case
Recase(text, period, phase) ==
    [ i \in DOMAIN text |-> IF i % period = phase THEN ToUpper(text[i]) ELSE text[i] ]

\* letter-casings of the marker phrases: as written, all upper case
\* (period 1), and every alternation up to MaxCasePeriod
MarkerCasings ==
    { ALREADY_PUBLISHED_MARKERS[m] : m \in DOMAIN ALREADY_PUBLISHED_MARKERS }
        \cup { Recase(ALREADY_PUBLISHED_MARKERS[m], period, phase) :
                 m \in DOMAIN ALREADY_PUBLISHED_MARKERS,
                 period \in 1..MaxCasePeriod, phase \in 0..(MaxCasePeriod - 1) }

TextErrorPrefix == << "e","r","r","o","r",":"," ","c","r","a","t","e"," " >>
TextAlreadyExist == << "a","l","r","e","a","d","y"," ","e","x","i","s","t" >>
TextTwoSpaces == << "A","L","R","E","A","D","Y"," "," ","E","X","I","S","T","S" >>
TextAlready == << "a","l","r","e","a","d","y"," " >>
TextUploaded == << "u","p","l","o","a","d","e","d" >>

\* a marker phrase alone on the stream and inside a longer line
TextsWithMarker ==
    MarkerCasings \cup { TextErrorPrefix \o casing \o << ".", "\n" >> : casing \in MarkerCasings }

\* streams without any marker phrase, among them a phrase cut short, a
\* phrase with a doubled space and the two halves of a phrase
TextsWithoutMarker ==
    { << >>, TextOk, TextNetworkFailure, TextAlreadyExist, TextTwoSpaces,
      TextAlready, TextUploaded }

\* results of failed invocations
FailureResults ==
    { [return_code |-> 101, stdout |-> out, stderr |-> err] :
        out \in TextsWithMarker, err \in { << >>, TextNetworkFailure } }
      \cup { [return_code |-> 101, stdout |-> out, stderr |-> err] :
               out \in { << >>, TextNetworkFailure }, err \in TextsWithMarker }
      \cup { [return_code |-> 101, stdout |-> out, stderr |-> err] :
               out \in TextsWithoutMarker, err \in TextsWithoutMarker }

\* argument vectors: empty, other tools, a differently cased name, cargo
TestCommands ==
    { << >>, << "git", "status" >>, << "rustc" >>, << "Cargo", "publish" >>,
      << "", "cargo" >>, << "cargo" >>, << "cargo", "oops" >> }

\* processes: those of a run and one exiting with the code of the tests
TestProcesses ==
    ProcessOutcomes
        \cup { [timed_out |-> FALSE,
                result |-> [return_code |-> 5, stdout |-> << >>, stderr |-> << >>]] }

\* shapes of the [patch] table of the documents remove_patch_entry is given
TestManifests ==
    { Manifest(3, WORKSPACE_VERSION, has_patch, other_tables, FALSE, {}) :
        has_patch \in BOOLEAN, other_tables \in { {} } }
      \cup { Manifest(3, WORKSPACE_VERSION, TRUE, { "my-registry" }, FALSE, {}) }
      \cup { Manifest(3, WORKSPACE_VERSION, TRUE, other_tables, TRUE,
                      { PatchEntry(c) : c \in crates }) :
               other_tables \in { {}, { "my-registry" } },
               crates \in { S \in SUBSET Range(PUBLISHABLE_CRATES) :
                              Cardinality(S) <= MaxPatchEntries } }

\* manifests workspace_version is given: every depth of missing key
VersionManifests ==
    { Manifest(keys, IF keys = 3 THEN ver ELSE "", FALSE, {}, FALSE, {}) :
        keys \in 0..3, ver \in { WORKSPACE_VERSION, "1.2.3" } }

\* entries workspace.members is built from: crate directories, a bare crate
\* name, an example, a directory below a crate, a value that is no string
TestMembers ==
    { Member(<< "crates", "rstest-bdd" >>), Member(<< "crates", "cargo-bdd" >>),
      Member(<< "rstest-bdd-macros" >>), Member(<< "examples", "todo-cli" >>),
      Member(<< "crates", "cargo-bdd", "docs" >>), NonStringMember }

\* manifests prune_workspace_members is given: no [workspace], no members,
\* members of another type, and every array up to MaxMembers entries
PruneManifests ==
    { Manifest(keys, "", FALSE, {}, FALSE, {}) : keys \in 0..1 }
      \cup { [Manifest(1, "", FALSE, {}, FALSE, {}) EXCEPT !.members_kind = "other"] }
      \cup { WithMembers(Manifest(2, "", FALSE, {}, FALSE, {}), entries) :
               entries \in SeqsUpTo(TestMembers, MaxMembers) }

\* archive members: files and directories inside, names that climb out,
\* an absolute name, links that stay inside, links that leave, a device
TestEntries ==
    { TarEntry("file", FALSE, << "Cargo.toml" >>, FALSE, << >>),
      TarEntry("dir", FALSE, << "crates" >>, FALSE, << >>),
      TarEntry("file", FALSE, << "..", "evil" >>, FALSE, << >>),
      TarEntry("file", FALSE, << "crates", "..", "..", "evil" >>, FALSE, << >>),
      TarEntry("file", TRUE, << "etc", "passwd" >>, FALSE, << >>),
      TarEntry("symlink", FALSE, << "crates", "link" >>, FALSE, << "..", "Cargo.toml" >>),
      TarEntry("symlink", FALSE, << "link" >>, FALSE, << "..", "outside" >>),
      TarEntry("symlink", FALSE, << "crates", "abs" >>, TRUE, << "etc" >>),
      TarEntry("hardlink", FALSE, << "crates", "hard" >>, FALSE, << "Cargo.toml" >>),
      TarEntry("hardlink", FALSE, << "crates", "climb" >>, FALSE, << "..", "Cargo.toml" >>),
      TarEntry("symlink", FALSE, << "crates", "here" >>, TRUE,
               << "<destination>", "Cargo.toml" >>),
      TarEntry("device", FALSE, << "dev" >>, FALSE, << >>) }

TextGitFatal ==
    << "f","a","t","a","l",":"," ","n","o","t"," ","a"," ","r","e","p","o","\n" >>
TextGitStdout == << " ","u","s","a","g","e" >>

\* (return_code, stdout, stderr) of git archive
GitResults ==
    { [return_code |-> 0, stdout |-> << >>, stderr |-> << >>],
      [return_code |-> 128, stdout |-> << >>, stderr |-> TextGitFatal],
      [return_code |-> 128, stdout |-> TextGitStdout, stderr |-> TextGitFatal],
      [return_code |-> 1, stdout |-> TextGitStdout, stderr |-> << >>],
      [return_code |-> 1, stdout |-> << >>, stderr |-> << >>] }

\* entries a configured dependency is tested with
ConfiguredEntries ==
    { NoDependency,
      StringDependency,
      TableDependency(<< Item("workspace", "true") >>),
      TableDependency(<< Item("path", "../old"), Item("version", "0.0.1"),
                         Item("default-features", "false") >>),
      TableDependency(<< Item("workspace", "true"), Item("features", "[serde]"),
                         Item("optional", "true") >>) }

OtherEntries ==
    { NoDependency,
      TableDependency(<< Item("workspace", "true"), Item("features", "[derive]") >>) }

Section(present, entries) == [present |-> present, entries |-> entries]

\* crate manifests: [dependencies] always there, [dev-dependencies] missing
\* or there, each dependency missing or in one of its shapes
CrateDocuments ==
    { [section \in SectionNames |->
         IF section = "dependencies"
         THEN Section(TRUE,
                  [name \in DependencyNames |->
                     CASE name = "rstest-bdd-patterns" -> patterns
                       [] name = "rstest-bdd" -> bdd
                       [] name = "serde" -> serde
                       [] OTHER -> NoDependency])
         ELSE Section(dev.present,
                  [name \in DependencyNames |->
                     CASE name = "rstest-bdd-macros" -> dev.macros
                       [] name = "rstest-bdd" -> dev.bdd
                       [] OTHER -> NoDependency])] :
        patterns \in ConfiguredEntries,
        bdd \in { e \in ConfiguredEntries : e.kind # "string" /\ Len(e.items) # 1 },
        serde \in OtherEntries,
        dev \in { [present |-> FALSE, macros |-> NoDependency, bdd |-> NoDependency] }
                  \cup [present : { TRUE }, macros : ConfiguredEntries,
                        bdd : OtherEntries] }

\* workspace roots build_cargo_command_context is called with
TestRoots == { << "tmp", "workspace" >>, << "tmp", "publish-check-a" >> }

ManifestPaths == { ROOT_MANIFEST, "/repo/Cargo.toml" }

Calls ==
    { [fn |-> "on_failure", crate |-> "demo", result |-> r] : r \in FailureResults }
      \cup { [fn |-> "run_cargo_command", crate |-> "demo", command |-> c,
              process |-> p, handler |-> h] :
               c \in TestCommands, p \in TestProcesses, h \in Handlers }
      \cup { [fn |-> "build_cargo_command_context", crate |-> "demo",
              workspace_root |-> w,
              timeout_given |-> g, timeout |-> t, env |-> e] :
               w \in TestRoots,
               g \in BOOLEAN, t \in 1..(MaxTimeout + 1), e \in EnvValues }
      \cup { [fn |-> "workspace_version", manifest |-> m, document |-> d] :
               m \in ManifestPaths, d \in VersionManifests }
      \cup { [fn |-> "prune_workspace_members", document |-> d] :
               d \in PruneManifests }
      \cup { [fn |-> "strip_patch_section", document |-> d] :
               d \in TestManifests }
      \cup { [fn |-> "apply_replacements", crate |-> c, document |-> d,
              include_local_path |-> p] :
               c \in DOMAIN REPLACEMENTS \cup { "demo-crate" },
               d \in CrateDocuments, p \in BOOLEAN }
      \cup { [fn |-> "extract_archive", archive |-> a, filter_supported |-> f] :
               a \in SeqsUpTo(TestEntries, MaxEntries), f \in BOOLEAN }
      \cup { [fn |-> "export_workspace", git |-> g, archive |-> a] :
               g \in GitResults, a \in SeqsUpTo(TestEntries, MaxEntries) }
      \cup { [fn |-> "remove_patch_entry", document |-> d, crate |-> c] :
               d \in TestManifests, c \in TestCrates }
      \cup { [fn |-> "apply_workspace_replacements", manifests |-> m,
              include_local_path |-> i, crates_given |-> g, crates |-> c] :
               m \in CrateManifests, i \in BOOLEAN, g \in BOOLEAN,
               c \in { q \in SeqsUpTo(TestCrates, MaxCrates) : NoRepeat(q) } }

\* the variables of a run stay as constructed while a function is called
RunVars ==
    << keep_tmp, timeout_secs, live, CRATE_ORDER, pc, error, tmp_created,
       workspace_exists, preserved, root_manifest, crate_manifests, version,
       idx, cmd_idx, ops >>

FnInit ==
    /\ call \in Calls
    /\ ret = Pending
    /\ keep_tmp = FALSE
    /\ timeout_secs = 1
    /\ live = FALSE
    /\ CRATE_ORDER = PUBLISHABLE_CRATES
    /\ pc = "fn"
    /\ error = ""
    /\ tmp_created = FALSE
    /\ workspace_exists = FALSE
    /\ preserved = 0
    /\ root_manifest = NoRootManifest
    /\ crate_manifests = NoCrateManifests
    /\ version = ""
    /\ idx = 1
    /\ cmd_idx = 1
    /\ ops = << >>

Calling(fn) == pc = "fn" /\ ret = Pending /\ call.fn = fn

Returned(fn) == pc = "fn" /\ ret # Pending /\ call.fn = fn

CallOnFailure ==
    /\ Calling("on_failure")
    /\ ret' = [handled |-> on_failure(call.result)]
    /\ UNCHANGED << call, RunVars >>

CallRunCargoCommand ==
    /\ Calling("run_cargo_command")
    /\ ret' = run_cargo_command(call.crate, call.command, call.process, call.handler)
    /\ UNCHANGED << call, RunVars >>

CallBuildCargoCommandContext ==
    /\ Calling("build_cargo_command_context")
    /\ ret' = build_cargo_command_context(call.crate, call.workspace_root,
                                          call.timeout_given,
                                          call.timeout, call.env)
    /\ UNCHANGED << call, RunVars >>

CallWorkspaceVersion ==
    /\ Calling("workspace_version")
    /\ ret' = workspace_version(call.manifest, call.document)
    /\ UNCHANGED << call, RunVars >>

CallRemovePatchEntry ==
    /\ Calling("remove_patch_entry")
    /\ ret' = remove_patch_entry(call.document, call.crate)
    /\ UNCHANGED << call, RunVars >>

\* prune_workspace_members(manifest), then once more on what it left
CallPruneWorkspaceMembers ==
    /\ Calling("prune_workspace_members")
    /\ LET once == prune_workspace_members(call.document)
           twice == prune_workspace_members(once.document)
       IN ret' = [document |-> once.document, written |-> once.written,
                  again |-> twice]
    /\ UNCHANGED << call, RunVars >>

\* strip_patch_section(manifest), then once more on what it left
CallStripPatchSection ==
    /\ Calling("strip_patch_section")
    /\ LET once == strip_patch_section(call.document)
           twice == strip_patch_section(once.document)
       IN ret' = [document |-> once.document, written |-> once.written,
                  again |-> twice]
    /\ UNCHANGED << call, RunVars >>

CallExportWorkspace ==
    /\ Calling("export_workspace")
    /\ ret' = export_workspace(call.git, call.archive)
    /\ UNCHANGED << call, RunVars >>

CallApplyReplacements ==
    /\ Calling("apply_replacements")
    /\ ret' = apply_replacements(call.crate, call.document, WORKSPACE_VERSION,
                                 call.include_local_path)
    /\ UNCHANGED << call, RunVars >>

CallExtractArchive ==
    /\ Calling("extract_archive")
    /\ ret' = extract_archive(call.archive, call.filter_supported)
    /\ UNCHANGED << call, RunVars >>

CallApplyWorkspaceReplacements ==
    /\ Calling("apply_workspace_replacements")
    /\ ret' = apply_workspace_replacements(call.manifests, WORKSPACE_VERSION,
                  call.include_local_path, call.crates_given, call.crates)
    /\ UNCHANGED << call, RunVars >>

FnNext ==
    \/ CallOnFailure
    \/ CallRunCargoCommand
    \/ CallBuildCargoCommandContext
    \/ CallWorkspaceVersion
    \/ CallRemovePatchEntry
    \/ CallPruneWorkspaceMembers
    \/ CallExportWorkspace
    \/ CallExtractArchive
    \/ CallApplyReplacements
    \/ CallStripPatchSection
    \/ CallApplyWorkspaceReplacements

FnSpec == FnInit /\ [][FnNext]_vars

----------------------------------------------------------------------------
(* History helpers                                                         *)

IsCmd(e) == e.op = "cmd"

\* the cargo invocations of the run, in call order
CmdSeq == SelectSeq(ops, IsCmd)

\* a cargo invocation that ended its crate's live sequence without raising
EndsSequence(e) ==
    /\ e.op = "cmd"
    /\ e.crate \in DOMAIN LIVE_PUBLISH_COMMANDS
    /\ \/ e.outcome = "handled"
       \/ /\ e.outcome = "ok"
          /\ e.command = LIVE_PUBLISH_COMMANDS[e.crate][Len(LIVE_PUBLISH_COMMANDS[e.crate])]

IsFirstLiveCommand(e) ==
    /\ e.op = "cmd"
    /\ e.crate \in DOMAIN LIVE_PUBLISH_COMMANDS
    /\ e.command = LIVE_PUBLISH_COMMANDS[e.crate][1]

\* a non-zero exit inside the timeout whose output carries a marker phrase
FailedWithMarker(e) ==
    e.op = "cmd" /\ ~e.timed_out /\ e.return_code # 0 /\ e.marker

CleanupOps == { "rmtree", "preserve" }

----------------------------------------------------------------------------
(* Claims                                                                  *)

\* C1: a run with keep_tmp = FALSE that passed the timeout check has created
\* its temporary workspace and, once the run has ended (normally or by an
\* exception raised at any step), that directory no longer exists.
C1_CleanupGuarantee ==
    (pc = "done" /\ ~keep_tmp /\ timeout_secs > 0)
        => (tmp_created /\ ~workspace_exists)

\* C1 witness: a run without keep_tmp ended by a command timeout and the
\* directory is gone.
C1_Witness ==
    /\ pc = "done" /\ ~keep_tmp /\ tmp_created /\ ~workspace_exists
    /\ error = "cargo command timed out"

\* C2: with keep_tmp = TRUE the temporary workspace is never deleted, and its
\* location is reported exactly once, at the end of the run, whether the run
\* returned or raised.
C2_PreserveOnRequest ==
    (keep_tmp /\ tmp_created) =>
        /\ workspace_exists
        /\ \A i \in DOMAIN ops : ops[i].op # "rmtree"
        /\ preserved = (IF pc = "done" THEN 1 ELSE 0)

\* C2 witness: a preserved workspace after a run that raised.
C2_Witness ==
    /\ pc = "done" /\ keep_tmp /\ workspace_exists /\ preserved = 1
    /\ error = "cargo command failed"

\* C3: in live mode, after a command of a crate failed (non-zero exit, no
\* timeout) with an already-published marker in its output, no later command
\* of that crate's sequence is invoked.
C3_ShortCircuitSkip ==
    live =>
        \A i, j \in DOMAIN ops :
            (i < j /\ FailedWithMarker(ops[i]) /\ ops[j].op = "cmd")
                => ops[j].crate # ops[i].crate

\* C3 witness: the first (dry-run) command of a two-command sequence was
\* classified as already published and the run went on to completion.
C3_Witness ==
    /\ live /\ pc = "done" /\ error = ""
    /\ \E i \in DOMAIN ops :
          /\ FailedWithMarker(ops[i])
          /\ IsFirstLiveCommand(ops[i])
          /\ Len(LIVE_PUBLISH_COMMANDS[ops[i].crate]) = 2

\* every step of the run other than a cargo invocation succeeded, every
\* catalogue crate has a live sequence, and every cargo invocation either
\* exited zero or failed with an already-published marker
OnlyAlreadyPublishedFailures ==
    /\ \A k \in DOMAIN CRATE_ORDER : CRATE_ORDER[k] \in DOMAIN LIVE_PUBLISH_COMMANDS
    /\ \A i \in DOMAIN ops :
          IF ops[i].op = "cmd"
          THEN ~ops[i].timed_out /\ (ops[i].return_code = 0 \/ ops[i].marker)
          ELSE ops[i].outcome = "ok"

\* the cargo invocations of the crate at catalogue position k
CmdsOf(k) == SelectSeq(ops, LAMBDA e : e.op = "cmd" /\ e.crate = CRATE_ORDER[k])

\* the crate at position k got its full sequence from the first command on:
\* its commands were invoked in order, ending only with the last command or
\* with its own short-circuit
FullSequenceRun(k) ==
    LET cmds == CmdsOf(k)
        commands == LIVE_PUBLISH_COMMANDS[CRATE_ORDER[k]]
    IN /\ Len(cmds) >= 1
       /\ Len(cmds) <= Len(commands)
       /\ \A m \in DOMAIN cmds : cmds[m].command = commands[m]
       /\ \A m \in DOMAIN cmds : m < Len(cmds) => cmds[m].outcome = "ok"
       /\ EndsSequence(cmds[Len(cmds)])

\* C4: a live run in which every failing command is classified as already
\* published completes without a fatal error, and every catalogue crate,
\* also those after a short-circuited one, gets its own rewrite and its
\* command sequence from the first command on, in catalogue order.
C4_ShortCircuitContinues ==
    (live /\ timeout_secs > 0 /\ CRATE_ORDER # << >> /\ pc = "done"
          /\ OnlyAlreadyPublishedFailures) =>
        /\ error = ""
        /\ \A k \in DOMAIN CRATE_ORDER :
              /\ FullSequenceRun(k)
              /\ \E i \in DOMAIN ops :
                    /\ ops[i].op = "apply"
                    /\ ops[i].crates = << CRATE_ORDER[k] >>
        /\ \A k \in DOMAIN CmdSeq :
              k < Len(CmdSeq) =>
                 \E a, b \in DOMAIN CRATE_ORDER :
                    /\ a <= b
                    /\ CmdSeq[k].crate = CRATE_ORDER[a]
                    /\ CmdSeq[k + 1].crate = CRATE_ORDER[b]

\* C4 witness: catalogue of three crates, the second short-circuited at its
\* dry run, the third still ran both of its commands, no error.
C4_Witness ==
    /\ live /\ pc = "done" /\ error = "" /\ Len(CRATE_ORDER) = 3
    /\ Len(CmdsOf(2)) = 1 /\ FailedWithMarker(CmdsOf(2)[1])
    /\ Len(CmdsOf(3)) = 2

\* C5: in both modes, once a command fails with a non-zero exit that is not
\* classified as already published, or times out, the run aborts with an
\* error: nothing but the final cleanup of the workspace follows that
\* command, and no command of a crate is ever invoked twice.
C5_FatalAborts ==
    /\ \A i \in DOMAIN ops :
          (ops[i].op = "cmd" /\ ops[i].outcome \in { "failed", "timeout" }) =>
              /\ error # ""
              /\ pc \in { "finally", "done" }
              /\ \A j \in DOMAIN ops : j > i => ops[j].op \in CleanupOps
    /\ \A i, j \in DOMAIN ops :
          (i < j /\ ops[i].op = "cmd" /\ ops[j].op = "cmd") =>
              << ops[i].crate, ops[i].command >> # << ops[j].crate, ops[j].command >>

\* C5 witness: the second crate's real publish failed without a marker and
\* the run ended with that error, the failing command being the last one.
C5_Witness ==
    /\ live /\ pc = "done" /\ error = "cargo command failed"
    /\ Len(CmdSeq) = 4
    /\ CmdSeq[4].outcome = "failed" /\ ~CmdSeq[4].marker
    /\ CmdSeq[4].crate = CRATE_ORDER[2]

\* C6: in a live pass the rewrite for (P,) without local paths is the call
\* immediately before P's first command, and the removal of P's override
\* entry is the call immediately after the command that ends P's sequence
\* (last command or short-circuit); each removal follows such a command.
C6_RewriteIsolation ==
    live =>
        \A i \in DOMAIN ops :
            /\ IsFirstLiveCommand(ops[i]) =>
                  /\ i > 1
                  /\ ops[i - 1].op = "apply"
                  /\ ops[i - 1].outcome = "ok"
                  /\ ops[i - 1].crates_given
                  /\ ops[i - 1].crates = << ops[i].crate >>
                  /\ ops[i - 1].include_local_path = FALSE
            /\ EndsSequence(ops[i]) =>
                  IF i < Len(ops)
                  THEN /\ ops[i + 1].op = "remove_patch"
                       /\ ops[i + 1].crate = ops[i].crate
                  ELSE pc = "cleanup" /\ CRATE_ORDER[idx] = ops[i].crate
            /\ ops[i].op = "remove_patch" =>
                  /\ i > 1
                  /\ EndsSequence(ops[i - 1])
                  /\ ops[i - 1].crate = ops[i].crate
            /\ ops[i].op = "apply" =>
                  /\ ops[i].crates_given
                  /\ Len(ops[i].crates) = 1
                  /\ i < Len(ops) /\ ops[i].outcome = "ok" /\ ops[i + 1].op = "cmd"
                        => IsFirstLiveCommand(ops[i + 1])
                           /\ ops[i + 1].crate = ops[i].crates[1]

\* C6 witness: a completed live pass over two crates, one of them
\* short-circuited, with both override entries removed.
C6_Witness ==
    /\ live /\ pc = "done" /\ error = "" /\ Len(CRATE_ORDER) = 2
    /\ \E i \in DOMAIN ops : ops[i].outcome = "handled"
    /\ Len(SelectSeq(ops, LAMBDA e : e.op = "remove_patch")) = 2

C10_NonPositiveTimeoutRejected ==
    timeout_secs <= 0 =>
        /\ ~tmp_created /\ ~workspace_exists
        /\ ops = << >>
        /\ root_manifest = NoRootManifest /\ crate_manifests = NoCrateManifests
        /\ pc \in { "start", "done" }
        /\ pc = "done" => error = "timeout-secs must be a positive integer"

\* C10 witness: a run with timeout 0 has ended with the timeout error.
C10_Witness ==
    /\ timeout_secs = 0 /\ pc = "done"
    /\ error = "timeout-secs must be a positive integer"

\* two characters that are the same letter in either case
SameLetter(a, b) == ToUpper(a) = ToUpper(b)

\* some marker phrase occurs in text, letter case disregarded
MentionsMarker(text) ==
    \E m \in DOMAIN ALREADY_PUBLISHED_MARKERS :
        LET marker == ALREADY_PUBLISHED_MARKERS[m]
        IN \E start \in 0..(Len(text) - Len(marker)) :
               \A k \in 1..Len(marker) : SameLetter(text[start + k], marker[k])

\* C11: a failed command is classified as already published exactly when its
\* stdout or its stderr contains one of the marker phrases in some
\* letter-casing; output without any marker phrase is never classified so.
C11_MarkerClassification ==
    Returned("on_failure") =>
        (ret.handled <=> (\/ MentionsMarker(call.result.stdout)
                          \/ MentionsMarker(call.result.stderr)))

\* C11 witness: "ALREADY UPLOADED" alone on stdout, stderr empty, classified
\* as already published.
C11_Witness ==
    /\ Returned("on_failure")
    /\ call.result.stdout = Recase(ALREADY_PUBLISHED_MARKERS[3], 1, 0)
    /\ call.result.stderr = << >>
    /\ call.result.return_code # 0
    /\ ret.handled

\* a direct call of run_cargo_command with a cargo command whose process
\* finished inside the timeout with a non-zero return code
FailedInvocation ==
    /\ Returned("run_cargo_command")
    /\ call.command # << >>
    /\ call.command[1] = "cargo"
    /\ ~call.process.timed_out
    /\ call.process.result.return_code # 0

\* the supplied classifier answers "handled" for the result of the call
ClassifierAccepts ==
    \/ call.handler = "accept"
    \/ /\ call.handler = "already_published"
       /\ \/ MentionsMarker(call.process.result.stdout)
          \/ MentionsMarker(call.process.result.stderr)

\* C12: on a non-zero exit inside the timeout a supplied failure classifier is
\* called exactly once, with the crate name and the command result; when it
\* answers handled the runner returns normally; when it answers not handled,
\* or none was supplied, the runner raises the fatal error that carries the
\* exit code.
C12_FailureDispatch ==
    FailedInvocation =>
        /\ ret.executions = 1
        /\ ret.handler_calls =
               (IF call.handler = "none" THEN << >>
                ELSE << [crate |-> call.crate, result |-> call.process.result] >>)
        /\ IF ClassifierAccepts
           THEN ~command_raises(ret.outcome) /\ ret.outcome = "handled"
           ELSE /\ command_raises(ret.outcome)
                /\ ret.outcome = "failed"
                /\ ret.exit_code = call.process.result.return_code

\* C12 witness: ["cargo", "oops"] exits with code 5, the supplied classifier
\* accepts, and the runner returns after exactly one classifier call.
C12_Witness ==
    /\ FailedInvocation
    /\ call.command = << "cargo", "oops" >>
    /\ call.process.result.return_code = 5
    /\ call.handler = "accept"
    /\ Len(ret.handler_calls) = 1
    /\ ret.outcome = "handled"

\* C13: a command invocation that times out ends the run fatally at once:
\* the failure classifier is not consulted for it, the process was started
\* once and is not started again, and nothing but the workspace clean-up
\* follows it, so no later command is invoked.
C13_TimeoutFatal ==
    \A i \in DOMAIN ops :
        (ops[i].op = "cmd" /\ ops[i].timed_out) =>
            /\ ops[i].outcome = "timeout"
            /\ ~ops[i].consulted
            /\ ops[i].executions = 1
            /\ pc \in { "finally", "done" }
            /\ error = "cargo command timed out"
            /\ \A j \in DOMAIN ops : j > i => ops[j].op \in CleanupOps

\* C13 witness: a live run whose second crate's publish command timed out
\* after its dry run had succeeded; the run ended with the timeout error.
C13_Witness ==
    /\ live /\ pc = "done" /\ error = "cargo command timed out"
    /\ Len(CmdSeq) >= 3
    /\ CmdSeq[Len(CmdSeq)].timed_out
    /\ CmdSeq[Len(CmdSeq)].command = << "cargo", "publish" >>
    /\ CmdSeq[Len(CmdSeq) - 1].outcome = "ok"
    /\ CmdSeq[Len(CmdSeq) - 1].crate = CmdSeq[Len(CmdSeq)].crate

\* C14: every command invocation of a run (package, check, dry-run publish,
\* publish, for every crate) is given a timeout equal to the timeout_secs
\* argument of the run, which is positive; whatever PUBLISH_CHECK_TIMEOUT_SECS
\* holds, the context built for the run's timeout_secs carries that value.
C14_UniformTimeout ==
    /\ \A i \in DOMAIN ops :
          ops[i].op = "cmd" =>
              /\ ops[i].timeout = timeout_secs
              /\ ops[i].timeout > 0
    /\ \A env \in EnvValues, k \in DOMAIN CRATE_ORDER :
          LET context == build_cargo_command_context(CRATE_ORDER[k], workspace,
                                                     TRUE, timeout_secs, env)
          IN context.ok /\ context.timeout_secs = timeout_secs

\* C14 witness: a live run over the shipped catalogue ran all eight publish
\* commands, plain and --locked, each with the run's timeout.
C14_Witness ==
    /\ live /\ pc = "done" /\ error = ""
    /\ CRATE_ORDER = PUBLISHABLE_CRATES
    /\ Len(CmdSeq) = 8
    /\ \A i \in DOMAIN CmdSeq : CmdSeq[i].timeout = timeout_secs /\ timeout_secs > 0
    /\ \E i \in DOMAIN CmdSeq : CmdSeq[i].command = << "cargo", "publish", "--locked" >>
    /\ \E i \in DOMAIN CmdSeq : CmdSeq[i].command = << "cargo", "publish", "--dry-run" >>

PrepOrder == << "export", "prune", "strip", "version", "apply" >>

IsPrep(e) == e.op \in Range(PrepOrder)

\* the preparation steps of the run so far, in call order
PrepSeq == SelectSeq(ops, IsPrep)

\* C15: in a validate run the preparation steps are export, prune, strip,
\* read version, rewrite, each at most once and in that order; every command
\* comes after all five have succeeded; the rewrite names no crates (all
\* packages) and keeps local paths; remove_patch_entry is never invoked and
\* no rewrite follows a command.
C15_ValidatePreparation ==
    ~live =>
        /\ Len(PrepSeq) <= Len(PrepOrder)
        /\ \A k \in DOMAIN PrepSeq : PrepSeq[k].op = PrepOrder[k]
        /\ \A i \in DOMAIN ops :
              /\ ops[i].op # "remove_patch"
              /\ ops[i].op = "apply" =>
                    ~ops[i].crates_given /\ ops[i].include_local_path
              /\ ops[i].op = "cmd" =>
                    /\ Len(PrepSeq) = Len(PrepOrder)
                    /\ \A k \in DOMAIN PrepSeq : PrepSeq[k].outcome = "ok"
                    /\ \A j \in DOMAIN ops : IsPrep(ops[j]) => j < i

\* C15 witness: a validate run over the shipped catalogue finished; its five
\* preparation steps precede the package command and the three checks.
C15_Witness ==
    /\ ~live /\ pc = "done" /\ error = ""
    /\ CRATE_ORDER = PUBLISHABLE_CRATES
    /\ Len(PrepSeq) = 5 /\ Len(CmdSeq) = 4
    /\ PrepSeq[3].op = "strip" /\ PrepSeq[5].op = "apply"
    /\ ~root_manifest.has_patch

\* C16: in a live run strip_patch_section is never invoked; the declared
\* version is read at most once, after export and prune have succeeded, and
\* before every rewrite; every per-crate rewrite is given that version.
C16_LivePreparation ==
    live =>
        /\ \A i \in DOMAIN ops : ops[i].op # "strip"
        /\ \A i, j \in DOMAIN ops :
              (ops[i].op = "version" /\ ops[j].op = "version") => i = j
        /\ \A i \in DOMAIN ops :
              ops[i].op = "version" =>
                  /\ \E e, p \in 1..(i - 1) :
                        /\ e < p
                        /\ ops[e].op = "export" /\ ops[e].outcome = "ok"
                        /\ ops[p].op = "prune" /\ ops[p].outcome = "ok"
        /\ \A j \in DOMAIN ops :
              ops[j].op = "apply" =>
                  /\ ops[j].crates_given /\ Len(ops[j].crates) = 1
                  /\ ops[j].version = version
                  /\ \E i \in 1..(j - 1) :
                        /\ ops[i].op = "version" /\ ops[i].outcome = "ok"
                        /\ ops[j].version = root_manifest.version

\* C16 witness: a live run over the shipped catalogue finished with its
\* patch entries removed one by one; four rewrites used the version read once.
C16_Witness ==
    /\ live /\ pc = "done" /\ error = ""
    /\ CRATE_ORDER = PUBLISHABLE_CRATES
    /\ Cardinality({ i \in DOMAIN ops : ops[i].op = "version" }) = 1
    /\ Cardinality({ i \in DOMAIN ops : ops[i].op = "apply" }) = 4
    /\ \A i \in DOMAIN ops : ops[i].op = "apply" => ops[i].version = WORKSPACE_VERSION
    /\ Cardinality({ i \in DOMAIN ops : ops[i].op = "remove_patch" }) = 4

C18_MissingVersionFatal ==
    /\ \A manifest \in ManifestPaths, document \in VersionManifests :
          LET read == workspace_version(manifest, document)
          IN IF document.version_keys < 3
             THEN ~read.ok /\ manifest \in Range(read.message)
             ELSE read.ok /\ read.value = document.version
    /\ \A i \in DOMAIN ops :
          ops[i].op = "version" =>
              /\ (ops[i].outcome = "raised") <=> (root_manifest.version_keys < 3)
              /\ ops[i].outcome = "raised" =>
                    /\ ROOT_MANIFEST \in Range(ops[i].message)
                    /\ error = "expected [workspace.package].version"
                    /\ \A j \in DOMAIN ops : ops[j].op \notin { "apply", "cmd" }

\* C18 witness: a live run whose root manifest has a [workspace] table without
\* a package table ended with the version error naming the manifest, before
\* any rewrite or command.
C18_Witness ==
    /\ live /\ pc = "done"
    /\ root_manifest.version_keys = 1
    /\ error = "expected [workspace.package].version"
    /\ Len(ops) >= 2
    /\ ops[Len(ops) - 1].op = "version"
    /\ ops[Len(ops) - 1].outcome = "raised"
    /\ ROOT_MANIFEST \in Range(ops[Len(ops) - 1].message)
    /\ CmdSeq = << >>

\* C19: run_cargo_command given an empty argument vector, or one whose first
\* element is not "cargo", raises before any process is started and without
\* calling the failure classifier, whatever classifier was supplied.
C19_NonCargoRejected ==
    ( /\ Returned("run_cargo_command")
      /\ (call.command = << >> \/ Head(call.command) # "cargo") )
        => /\ ret.outcome = "invalid"
           /\ command_raises(ret.outcome)
           /\ ret.executions = 0
           /\ ret.handler_calls = << >>

\* C19 witness: ["git", "status"] offered with an accepting classifier and a
\* process that would fail is rejected with nothing executed.
C19_Witness ==
    /\ Returned("run_cargo_command")
    /\ call.command = << "git", "status" >>
    /\ call.handler = "accept"
    /\ call.process.result.return_code = 5
    /\ ret.outcome = "invalid"
    /\ ret.executions = 0

\* the [patch.crates-io] table of the document holds an entry for the crate
HasPatchEntry(document, crate) ==
    /\ document.has_patch
    /\ document.has_crates_io
    /\ \E e \in document.crates_io : e.name = crate

\* C20: remove_patch_entry(manifest, P) takes P's entry out of
\* [patch.crates-io] and leaves every other entry as it was; the crates-io
\* table is deleted only when no entry remains, and the patch table only when
\* nothing remains in it; when the table or P's entry is absent the document
\* is unchanged and the file is not written.
C20_RemovePatchEntry ==
    Returned("remove_patch_entry") =>
        LET before == call.document
            after == ret.document
            others == { e \in before.crates_io : e.name # call.crate }
        IN IF HasPatchEntry(before, call.crate)
           THEN /\ ret.written
                /\ after.crates_io = others
                /\ after.has_crates_io <=> (others # {})
                /\ after.has_patch <=> (others # {} \/ before.other_tables # {})
                /\ after.other_tables = before.other_tables
                /\ after.version_keys = before.version_keys
                /\ after.version = before.version
           ELSE ~ret.written /\ after = before

\* C20 witness: of two entries one is removed; the other entry and both
\* tables stay, and the file was written.
C20_Witness ==
    /\ Returned("remove_patch_entry")
    /\ call.crate = "rstest-bdd"
    /\ call.document.crates_io = { PatchEntry("rstest-bdd"), PatchEntry("cargo-bdd") }
    /\ call.document.other_tables = {}
    /\ ret.written
    /\ ret.document.crates_io = { PatchEntry("cargo-bdd") }
    /\ ret.document.has_crates_io /\ ret.document.has_patch

IsPublishableMember(entry) ==
    /\ entry.is_str
    /\ entry.path # << >>
    /\ \E i \in DOMAIN PUBLISHABLE_CRATES :
          entry.path[Len(entry.path)] = PUBLISHABLE_CRATES[i]

\* C21: after prune_workspace_members the member list is the original list
\* restricted to the string entries whose final path component is a
\* publishable crate name, in the original order; the file is written only
\* when an entry was removed, so not when [workspace] or the member list is
\* missing; a second application changes nothing and writes nothing.
C21_PruneMembers ==
    Returned("prune_workspace_members") =>
        LET before == call.document
            after == ret.document
            has_list == before.version_keys >= 1 /\ before.members_kind = "array"
            expected == SelectSeq(before.members, IsPublishableMember)
        IN /\ IF has_list
              THEN /\ after = [before EXCEPT !.members = expected]
                   /\ ret.written <=> (expected # before.members)
              ELSE after = before /\ ~ret.written
           /\ ret.again.document = after
           /\ ~ret.again.written

\* C21 witness: of [crates/rstest-bdd, 7, examples/todo-cli] only the first
\* entry is kept and the file is written once.
C21_Witness ==
    /\ Returned("prune_workspace_members")
    /\ call.document.members =
           << Member(<< "crates", "rstest-bdd" >>), NonStringMember,
              Member(<< "examples", "todo-cli" >>) >>
    /\ ret.document.members = << Member(<< "crates", "rstest-bdd" >>) >>
    /\ ret.written /\ ~ret.again.written

\* C22: strip_patch_section leaves a document without [patch.crates-io]
\* entries; everything outside [patch.crates-io] is as before, the [patch]
\* table itself going only when crates-io was all it held; without the
\* section the document is unchanged and not written; a second application
\* changes nothing and writes nothing.
C22_StripIdempotent ==
    Returned("strip_patch_section") =>
        LET before == call.document
            after == ret.document
            present == before.has_patch /\ before.has_crates_io
        IN /\ after.crates_io = {} /\ ~after.has_crates_io
           /\ after.other_tables = before.other_tables
           /\ after.version_keys = before.version_keys
           /\ after.version = before.version
           /\ after.members_kind = before.members_kind
           /\ after.members = before.members
           /\ after.has_patch <=>
                  (before.has_patch /\ (~present \/ before.other_tables # {}))
           /\ IF present THEN ret.written ELSE after = before /\ ~ret.written
           /\ ret.again.document = after
           /\ ~ret.again.written

\* C22 witness: a [patch] table with two crates-io entries and another
\* registry loses the crates-io table, keeps the registry, and stripping
\* again writes nothing.
C22_Witness ==
    /\ Returned("strip_patch_section")
    /\ Cardinality(call.document.crates_io) = 2
    /\ call.document.other_tables = { "my-registry" }
    /\ ret.written
    /\ ret.document.crates_io = {} /\ ret.document.has_patch
    /\ ret.document.other_tables = { "my-registry" }
    /\ ~ret.again.written

\* where a member lands below the destination: its name with ".." and the
\* components they cancel taken out; Outside when it climbs above the root
RECURSIVE Landing(_, _)
Landing(path, stack) ==
    IF path = << >> THEN [outside |-> FALSE, at |-> stack]
    ELSE IF Head(path) = ".."
    THEN IF stack = << >> THEN [outside |-> TRUE, at |-> << >>]
         ELSE Landing(Tail(path), SubSeq(stack, 1, Len(stack) - 1))
    ELSE Landing(Tail(path), Append(stack, Head(path)))

\* the member itself or the target of the link it makes lies outside the
\* destination: a symlink target is read from the link's directory, a hard
\* link target from the destination
LeavesDestination(entry) ==
    \/ Landing(entry.name, << >>).outside
    \/ /\ entry.type \in { "symlink", "hardlink" }
       /\ IF entry.link_absolute
          THEN \/ entry.linkname = << >>
               \/ Head(entry.linkname) # "<destination>"
               \/ Landing(Tail(entry.linkname), << >>).outside
          ELSE LET landed == Landing(entry.name, << >>).at
                 base == IF entry.type = "symlink"
                         THEN SubSeq(landed, 1, Len(landed) - 1) ELSE << >>
             IN Landing(entry.linkname, base).outside

\* C23: export_workspace extracts no member that lands outside the
\* destination or links to something outside it: the first such member of
\* the archive raises an error and is not extracted; when git archive exits
\* non-zero the error carries the exit code and git's diagnostic text and
\* nothing is extracted.
C23_ExportConfined ==
    Returned("export_workspace") =>
        /\ \A i \in DOMAIN ret.extracted : ~LeavesDestination(ret.extracted[i])
        /\ IF call.git.return_code # 0
           THEN /\ ret.error = "git archive failed"
                /\ ret.exit_code = call.git.return_code
                /\ ret.extracted = << >>
                /\ LET output == IF call.git.stderr # << >> THEN call.git.stderr
                                 ELSE call.git.stdout
                   IN /\ Contains(ret.detail, output)
                      /\ \A k \in DOMAIN output :
                            output[k] \notin Whitespace =>
                                \E j \in DOMAIN ret.detail : ret.detail[j] = output[k]
           ELSE /\ (\E i \in DOMAIN call.archive : LeavesDestination(call.archive[i]))
                       => ret.error # ""
                /\ ret.error = "" => ret.extracted = call.archive

\* C23 witness: git archive succeeded; the first member was extracted and the
\* second, a symlink to ../outside, raised instead of being extracted.
C23_Witness ==
    /\ Returned("export_workspace")
    /\ call.git.return_code = 0
    /\ Len(call.archive) = 2
    /\ call.archive[2].type = "symlink"
    /\ call.archive[2].linkname = << "..", "outside" >>
    /\ ret.error = "LinkOutsideDestinationError"
    /\ ret.extracted = << call.archive[1] >>

\* the integer each tested value of PUBLISH_CHECK_TIMEOUT_SECS denotes, for
\* those that denote one
EnvIntegers ==
    { << << "4", "2" >>, 42 >>, << << "-", "5" >>, 0 - 5 >>,
      << << " ", "7", "\n" >>, 7 >> }

\* C24: the timeout of a command context is the explicit value whenever one
\* is given, whatever the environment holds; with none given it is the
\* integer the environment variable denotes, 900 when the variable is unset,
\* and a fatal error when the variable holds a text that is not an integer.
C24_TimeoutPrecedence ==
    Returned("build_cargo_command_context") =>
        IF call.timeout_given
        THEN ret.ok /\ ret.timeout_secs = call.timeout
        ELSE IF ~call.env.set
        THEN ret.ok /\ ret.timeout_secs = 900
        ELSE IF \E pair \in EnvIntegers : pair[1] = call.env.value
        THEN /\ ret.ok
             /\ \E pair \in EnvIntegers :
                    pair[1] = call.env.value /\ ret.timeout_secs = pair[2]
        ELSE ~ret.ok

\* C24 witness: no explicit value and the variable holds "soon": the call
\* fails instead of answering 900.
C24_Witness ==
    /\ Returned("build_cargo_command_context")
    /\ ~call.timeout_given
    /\ call.env.value = << "s", "o", "o", "n" >>
    /\ ~ret.ok

\* C25: in a validate run no failure classifier is consulted for any
\* command, and every package or check command that exits non-zero ends the
\* run with the command-failure error, marker in its output or not: only the
\* workspace clean-up follows it.
C25_ValidateFailuresFatal ==
    ~live =>
        \A i \in DOMAIN ops :
            ops[i].op = "cmd" =>
                /\ ~ops[i].consulted
                /\ ops[i].outcome # "handled"
                /\ (~ops[i].timed_out /\ ops[i].return_code # 0) =>
                       /\ ops[i].outcome = "failed"
                       /\ pc \in { "finally", "done" }
                       /\ error = "cargo command failed"
                       /\ \A j \in DOMAIN ops : j > i => ops[j].op \in CleanupOps

\* C25 witness: a validate run ended by a command that exited non-zero with
\* an already-published marker in its output.
C25_Witness ==
    /\ ~live /\ pc = "done" /\ error = "cargo command failed"
    /\ CmdSeq # << >>
    /\ FailedWithMarker(CmdSeq[Len(CmdSeq)])
    /\ CmdSeq[Len(CmdSeq)].command[2] \in { "package", "check" }

\* the values an entry gives for a key, one per occurrence of the key
ValuesOf(entry, key) ==
    { entry.items[i].value : i \in { k \in DOMAIN entry.items : entry.items[k].key = key } }

KeysOf(entry) == { entry.items[i].key : i \in DOMAIN entry.items }

\* the configured path of the (section, name) dependency of a crate, if any
ConfiguredPaths(crate, section, name) ==
    { REPLACEMENTS[crate][i].path :
        i \in { k \in DOMAIN REPLACEMENTS[crate] :
                  /\ REPLACEMENTS[crate][k].section = section
                  /\ REPLACEMENTS[crate][k].name = name } }

\* C26: after apply_replacements succeeded for a crate with version V, every
\* dependency configured for the crate is a table whose version is V, whose
\* path is the configured one when include_local_path holds and is absent
\* otherwise, that has no workspace key, and that carries every other key
\* of the original entry once, with its value, and no key besides; every
\* other dependency and the presence of each section are as before.
C26_ApplyReplacements ==
    (Returned("apply_replacements") /\ ret.error = "") =>
        /\ ret.written
        /\ \A section \in SectionNames :
              /\ ret.document[section].present = call.document[section].present
              /\ \A name \in DependencyNames :
                    LET before == call.document[section].entries[name]
                        after == ret.document[section].entries[name]
                        paths == ConfiguredPaths(call.crate, section, name)
                    IN IF paths = {} THEN after = before
                       ELSE /\ after.kind = "table"
                            /\ ValuesOf(after, "version") = { WORKSPACE_VERSION }
                            /\ ValuesOf(after, "path") =
                                   (IF call.include_local_path THEN paths ELSE {})
                            /\ "workspace" \notin KeysOf(after)
                            /\ \A key \in KeysOf(before) \ { "workspace", "path", "version" } :
                                   ValuesOf(after, key) = ValuesOf(before, key)
                            /\ KeysOf(after) \ { "path", "version" }
                                   = KeysOf(before) \ { "workspace", "path", "version" }
                            /\ Cardinality(KeysOf(after)) = Len(after.items)

\* C26 witness: rstest-bdd rewritten without local paths; its patterns
\* dependency had a path, a version and default-features, and its macros
\* dev-dependency had workspace, features and optional.
C26_Witness ==
    /\ Returned("apply_replacements") /\ ret.error = ""
    /\ call.crate = "rstest-bdd" /\ ~call.include_local_path
    /\ KeysOf(call.document["dependencies"].entries["rstest-bdd-patterns"])
           = { "path", "version", "default-features" }
    /\ KeysOf(call.document["dev-dependencies"].entries["rstest-bdd-macros"])
           = { "workspace", "features", "optional" }
    /\ call.document["dependencies"].entries["serde"].kind = "table"
    /\ KeysOf(ret.document["dependencies"].entries["rstest-bdd-patterns"])
           = { "version", "default-features" }

\* C27: every command of a run was executed inside the run's own temporary
\* directory: after that directory was made and before it was removed, with
\* <workspace>/crates/<crate> as working directory for the crate the command
\* belongs to, a crate of the catalogue, and with CARGO_HOME set to
\* <workspace>/.cargo-home.
C27_ConfinedExecution ==
    \A i \in DOMAIN ops :
        ops[i].op = "cmd" =>
            /\ ops[i].crate \in Range(CRATE_ORDER)
            /\ ops[i].cwd = << "<workspace>", "crates", ops[i].crate >>
            /\ ops[i].cargo_home = << "<workspace>", ".cargo-home" >>
            /\ \E j \in 1..(i - 1) : ops[j].op = "mkdtemp"
            /\ \A j \in 1..(i - 1) : ops[j].op \notin CleanupOps

\* C27 witness: a live run that invoked commands for two different crates,
\* each in its own directory of the workspace.
C27_Witness ==
    /\ live /\ pc = "done"
    /\ Len(CmdSeq) >= 3
    /\ CmdSeq[1].crate # CmdSeq[Len(CmdSeq)].crate
    /\ CmdSeq[1].cwd = << "<workspace>", "crates", CmdSeq[1].crate >>
    /\ CmdSeq[Len(CmdSeq)].cwd = << "<workspace>", "crates", CmdSeq[Len(CmdSeq)].crate >>

\* the levels of the log entries one invocation wrote
LogLevels(entries) == { entries[i].level : i \in DOMAIN entries }

\* C28: an invocation that ran relays the captured stdout and stderr once,
\* unchanged, when the command exits zero and when its non-zero exit is
\* classified as already published, and then logs a warning too; when the
\* invocation ends fatally (non-zero exit not classified, or timeout) nothing
\* is relayed and the failure is logged at error level, each non-empty
\* captured stream of a failed command in an error entry of its own.
C28_OutputRelay ==
    (Returned("run_cargo_command") /\ ret.executions = 1) =>
        LET result == call.process.result
            once == << [stdout |-> result.stdout, stderr |-> result.stderr] >>
        IN /\ ret.outcome = "ok" =>
                  ret.relayed = once /\ ret.log = << >>
           /\ (ret.outcome = "handled" /\ call.handler = "already_published") =>
                  /\ ret.relayed = once
                  /\ LogLevels(ret.log) = { "warning" }
                  /\ Len(ret.log) = 1
           /\ ret.outcome \in { "failed", "timeout" } =>
                  /\ ret.relayed = << >>
                  /\ LogLevels(ret.log) = { "error" }
           /\ ret.outcome = "failed" =>
                  \A stream \in { result.stdout, result.stderr } \ { << >> } :
                      \E i \in DOMAIN ret.log : ret.log[i].text = stream

\* C28 witness: a publish command failed with an already-published marker on
\* stderr; the output was replayed once and one warning was logged.
C28_Witness ==
    /\ Returned("run_cargo_command")
    /\ call.handler = "already_published"
    /\ call.process.result.return_code # 0
    /\ call.process.result.stderr # << >>
    /\ ret.outcome = "handled"
    /\ Len(ret.relayed) = 1
    /\ ret.relayed[1].stderr = call.process.result.stderr
    /\ Len(ret.log) = 1 /\ ret.log[1].level = "warning"

\* a preparation step (export, prune, strip, version read, rewrite) that
\* raised
PrepFailed(e) == IsPrep(e) /\ e.outcome = "raised"

\* C29 as stated: after any preparation step failed the run is over, nothing
\* but the clean-up follows, and the run has invoked no command for any
\* crate.
C29_NoCommandInRun ==
    \A i \in DOMAIN ops :
        PrepFailed(ops[i]) =>
            /\ pc \in { "finally", "done" }
            /\ \A j \in DOMAIN ops : j > i => ops[j].op \in CleanupOps
            /\ CmdSeq = << >>

\* C29: a preparation step that fails ends the run with its error: only the
\* clean-up follows it, so no later preparation step runs and no command is
\* invoked after it. No command was invoked before it either when the step
\* is export, prune, strip, the version read or the rewrite of a validate
\* run; the per-crate rewrite of a live run can fail after the commands of
\* the crates before it were invoked.
C29_PreparationFailureFatal ==
    \A i \in DOMAIN ops :
        PrepFailed(ops[i]) =>
            /\ pc \in { "finally", "done" }
            /\ error # ""
            /\ \A j \in DOMAIN ops : j > i => ops[j].op \in CleanupOps
            /\ (ops[i].op # "apply" \/ ~live) => CmdSeq = << >>
            /\ CmdSeq # << >> =>
                   /\ ops[i].crates_given
                   /\ \A k \in DOMAIN CmdSeq : CmdSeq[k].crate \notin Range(ops[i].crates)

\* C29 witness: a validate run whose rewrite raised: the run is over and no
\* command was invoked.
C29_Witness ==
    /\ ~live /\ pc = "done"
    /\ ops # << >>
    /\ \E i \in DOMAIN ops : ops[i].op = "apply" /\ ops[i].outcome = "raised"
    /\ CmdSeq = << >>
    /\ error = "expected dependency"

\* the crates a history entry is about
EventCrates(e) ==
    IF e.op = "apply" THEN Range(e.crates) ELSE { e.crate } \ { "" }

\* C30: in a live run over a catalogue holding a crate with no live command
\* sequence, no command is ever invoked for that crate, nothing at all is
\* done for the crates after it (no rewrite, no command, no patch-entry
\* removal), its own patch entry is not removed, and the run cannot end
\* without an error: when it gets as far as that crate it ends with the
\* missing-commands error.
C30_MissingSequenceFatal ==
    live =>
        \A k \in DOMAIN CRATE_ORDER :
            CRATE_ORDER[k] \notin { "rstest-bdd-patterns", "rstest-bdd-macros",
                                    "rstest-bdd", "cargo-bdd" } =>
                /\ \A i \in DOMAIN ops :
                      /\ ops[i].op \in { "cmd", "remove_patch" }
                             => ops[i].crate # CRATE_ORDER[k]
                      /\ \A j \in DOMAIN CRATE_ORDER :
                             j > k => CRATE_ORDER[j] \notin EventCrates(ops[i])
                /\ pc = "done" => error # ""
                /\ (pc \in { "finally", "done" } /\ \E i \in DOMAIN ops :
                        ops[i].op = "apply" /\ ops[i].outcome = "ok"
                            /\ ops[i].crates = << CRATE_ORDER[k] >>)
                       => error = "missing live publish commands"

\* C30 witness: a live run over a catalogue with a configured crate before
\* and after demo-crate ended with the missing-commands error after the
\* first crate's commands.
C30_Witness ==
    /\ live /\ pc = "done" /\ error = "missing live publish commands"
    /\ Len(CRATE_ORDER) = 3
    /\ CRATE_ORDER[2] = "demo-crate"
    /\ CRATE_ORDER[3] \in DOMAIN LIVE_PUBLISH_COMMANDS
    /\ CmdSeq # << >>
    /\ \A i \in DOMAIN CmdSeq : CmdSeq[i].crate = CRATE_ORDER[1]

\* a command is cargo publish, with --dry-run or without, and with --locked
\* exactly when asked, and carries nothing else
IsPublishCommand(command, dry_run, locked) ==
    /\ Len(command) >= 2
    /\ command[1] = "cargo" /\ command[2] = "publish"
    /\ Range(SubSeq(command, 3, Len(command)))
           = (IF dry_run THEN { "--dry-run" } ELSE {})
                 \cup (IF locked THEN { "--locked" } ELSE {})
    /\ Len(command) = 2 + (IF dry_run THEN 1 ELSE 0) + (IF locked THEN 1 ELSE 0)

\* C31: every crate of the shipped catalogue has a live sequence of exactly
\* two commands, a dry-run publish then a real publish; both carry --locked
\* for cargo-bdd, the locked crate, and neither does for any other crate; the
\* commands a live run over the shipped catalogue invokes are those.
C31_LiveSequences ==
    /\ \A k \in DOMAIN PUBLISHABLE_CRATES :
          LET crate == PUBLISHABLE_CRATES[k] IN
          /\ crate \in DOMAIN LIVE_PUBLISH_COMMANDS
          /\ Len(LIVE_PUBLISH_COMMANDS[crate]) = 2
          /\ IsPublishCommand(LIVE_PUBLISH_COMMANDS[crate][1], TRUE,
                              crate = "cargo-bdd")
          /\ IsPublishCommand(LIVE_PUBLISH_COMMANDS[crate][2], FALSE,
                              crate = "cargo-bdd")
    /\ (live /\ CRATE_ORDER = PUBLISHABLE_CRATES) =>
          \A i \in DOMAIN ops :
              ops[i].op = "cmd" =>
                  \E dry_run \in BOOLEAN :
                      IsPublishCommand(ops[i].command, dry_run,
                                       ops[i].crate = "cargo-bdd")

\* C31 witness: a live run over the shipped catalogue ended without error;
\* its last two commands were the locked dry run and the locked publish of
\* cargo-bdd, and its first two the plain ones of rstest-bdd-patterns.
C31_Witness ==
    /\ live /\ pc = "done" /\ error = ""
    /\ CRATE_ORDER = PUBLISHABLE_CRATES
    /\ Len(CmdSeq) = 8
    /\ CmdSeq[1].command = << "cargo", "publish", "--dry-run" >>
    /\ CmdSeq[2].command = << "cargo", "publish" >>
    /\ CmdSeq[7].command = << "cargo", "publish", "--dry-run", "--locked" >>
    /\ CmdSeq[8].command = << "cargo", "publish", "--locked" >>
    /\ CmdSeq[8].crate = "cargo-bdd"

\* C32: a command that exits zero inside the timeout is a success whatever
\* its output says: the classifier is not consulted and the invocation is not
\* classified as already published; in a live run, after the first command
\* of a crate's sequence exited zero the very next call is the second command
\* of the same crate.
C32_SuccessNeverShortCircuits ==
    \A i \in DOMAIN ops :
        (ops[i].op = "cmd" /\ ~ops[i].timed_out /\ ops[i].return_code = 0) =>
            /\ ~ops[i].consulted
            /\ ops[i].outcome = "ok"
            /\ (live /\ ops[i].command = << "cargo", "publish", "--dry-run" >>) =>
                   IF i < Len(ops)
                   THEN /\ ops[i + 1].op = "cmd"
                        /\ ops[i + 1].crate = ops[i].crate
                        /\ ops[i + 1].command = << "cargo", "publish" >>
                   ELSE pc = "action" /\ cmd_idx = 2 /\ error = ""

\* C32 witness: a dry run exited zero with a marker phrase in its output and
\* the real publish of the same crate was invoked next.
C32_Witness ==
    /\ live
    /\ \E i \in DOMAIN ops :
          /\ i < Len(ops)
          /\ ops[i].op = "cmd" /\ ops[i].return_code = 0 /\ ops[i].marker
          /\ ops[i].command = << "cargo", "publish", "--dry-run" >>
          /\ ops[i + 1].op = "cmd"
          /\ ops[i + 1].crate = ops[i].crate
          /\ ops[i + 1].command = << "cargo", "publish" >>

\* the names with an entry in [patch.crates-io] of the root manifest now
PatchedNow ==
    IF root_manifest.has_patch /\ root_manifest.has_crates_io
    THEN { e.name : e \in root_manifest.crates_io } ELSE {}

\* the names that had an entry when the snapshot was exported
PatchedAtStart ==
    UNION { ops[i].entries : i \in { k \in DOMAIN ops : ops[k].op = "export" } }

\* C33: in a live run, while the commands of the crate at catalogue index idx
\* are invoked, the override table of the root manifest holds exactly the
\* entries it had after export minus those of the crates at indexes below
\* idx: none of theirs, and still every entry of the crates from idx on and
\* of names outside the catalogue. When the pass has ended without error no
\* catalogue crate has an entry left and the entries of other names remain.
C33_OverrideTableShrinks ==
    live =>
        /\ pc = "action" =>
              PatchedNow = PatchedAtStart
                               \ { CRATE_ORDER[j] : j \in 1..(idx - 1) }
        /\ (pc \in { "finally", "done" } /\ error = "") =>
              /\ PatchedNow \cap Range(CRATE_ORDER) = {}
              /\ PatchedNow = PatchedAtStart \ Range(CRATE_ORDER)

\* C33 witness: the commands of the second crate of the catalogue are being
\* invoked; the first crate's entry is gone, the second's and one of a crate
\* outside the catalogue are still there.
C33_Witness ==
    /\ live /\ pc = "action" /\ idx = 2
    /\ CRATE_ORDER[1] \in PatchedAtStart
    /\ CRATE_ORDER[1] \notin PatchedNow
    /\ CRATE_ORDER[2] \in PatchedNow
    /\ PatchedNow \ Range(CRATE_ORDER) # {}

MissingConfigured(crate, document) ==
    \E i \in DOMAIN REPLACEMENTS[crate] :
        LET patch == REPLACEMENTS[crate][i]
        IN \/ ~document[patch.section].present
           \/ document[patch.section].entries[patch.name].kind = "absent"

\* C35: apply_replacements for a configured crate either applies every
\* configured patch and then writes the manifest, or, when a configured
\* section or dependency is missing, raises without writing: the manifest on
\* disk is exactly what it was, also when an earlier patch of the same call
\* had succeeded in memory.
C35_AllOrNothing ==
    (Returned("apply_replacements") /\ call.crate \in DOMAIN REPLACEMENTS) =>
        IF MissingConfigured(call.crate, call.document)
        THEN /\ ret.error \in { "expected section", "expected dependency" }
             /\ ~ret.written
             /\ ret.document = call.document
        ELSE /\ ret.error = ""
             /\ ret.written
             /\ \A i \in DOMAIN REPLACEMENTS[call.crate] :
                   LET patch == REPLACEMENTS[call.crate][i]
                       after == ret.document[patch.section].entries[patch.name]
                   IN \E k \in DOMAIN after.items :
                          after.items[k] = [key |-> "version", value |-> WORKSPACE_VERSION]

\* C35 witness: for rstest-bdd the dependency of [dependencies] is present
\* as a workspace table and [dev-dependencies] is missing: the call raised
\* and the first entry on disk is still the workspace table.
C35_Witness ==
    /\ Returned("apply_replacements")
    /\ call.crate = "rstest-bdd"
    /\ call.document["dependencies"].entries["rstest-bdd-patterns"].items
           = << [key |-> "workspace", value |-> "true"] >>
    /\ ~call.document["dev-dependencies"].present
    /\ ret.error = "expected section"
    /\ ~ret.written
    /\ ret.document["dependencies"].entries["rstest-bdd-patterns"].items
           = << [key |-> "workspace", value |-> "true"] >>

\* the member as named is not a file, directory or link, or it lies outside
\* the destination (an absolute name does, unless it names the destination),
\* or it links to something outside
RefusedMember(entry) ==
    \/ entry.type = "device"
    \/ IF entry.absolute
       THEN \/ entry.name = << >>
            \/ Head(entry.name) # "<destination>"
       ELSE LeavesDestination(entry)

\* C36: _extract_archive validates the whole archive before it extracts:
\* when any member has an unsupported type or a path or link target outside
\* the destination, the call raises one of the three refusals and nothing
\* has been extracted, wherever in the archive that member is; a call that
\* returns normally has extracted every member.
C36_ValidateBeforeExtract ==
    Returned("extract_archive") =>
        /\ (\E i \in DOMAIN call.archive : RefusedMember(call.archive[i])) =>
              /\ ret.error \in
                     { "refusing to extract unsupported tar entry type",
                       "refusing to extract member outside destination",
                       "refusing to extract link entry outside destination" }
              /\ ret.extracted = << >>
        /\ ret.error = "" => ret.extracted = call.archive

\* C36 witness: the first member is a plain file and the second a hard link
\* to ../Cargo.toml; the call raised and the plain file was not extracted.
C36_Witness ==
    /\ Returned("extract_archive")
    /\ Len(call.archive) = 2
    /\ call.archive[1].type = "file" /\ call.archive[1].name = << "Cargo.toml" >>
    /\ call.archive[2].type = "hardlink"
    /\ call.archive[2].linkname = << "..", "Cargo.toml" >>
    /\ ret.error = "refusing to extract link entry outside destination"
    /\ ret.extracted = << >>

\* the run is over: it returned or raised, a run that made its temporary
\* directory has gone through the finally block as its last step, and no
\* command of any crate was invoked twice, each being a command configured
\* for its crate in the run's mode
Ended ==
    /\ pc = "done"
    /\ tmp_created =>
          /\ ops # << >>
          /\ ops[Len(ops)].op \in CleanupOps
          /\ \A i \in 1..(Len(ops) - 1) : ops[i].op \notin CleanupOps
    /\ \A i, j \in DOMAIN CmdSeq :
          i # j => << CmdSeq[i].crate, CmdSeq[i].command >>
                       # << CmdSeq[j].crate, CmdSeq[j].command >>
    /\ \A i \in DOMAIN CmdSeq :
          /\ CmdSeq[i].crate \in Range(CRATE_ORDER)
          /\ CmdSeq[i].executions = 1
          /\ IF live
             THEN \E k \in 1..2 : CmdSeq[i].command
                                      = LIVE_PUBLISH_COMMANDS[CmdSeq[i].crate][k]
             ELSE CmdSeq[i].command \in { package_command, check_command }

\* C37: every run ends, given that every step that can be taken eventually
\* is (each command exits, fails or times out): the run reaches the state
\* after its last step and stays there, a run that created its workspace
\* having gone through the clean-up as its last step, after at most one
\* invocation of each command of each catalogue crate.
C37_Terminates == <>[]Ended

\* C37 witness: a live run over the shipped catalogue has ended after its
\* clean-up with eight invocations, none repeated.
C37_Witness ==
    /\ Ended
    /\ live /\ tmp_created /\ error = ""
    /\ CRATE_ORDER = PUBLISHABLE_CRATES
    /\ Len(CmdSeq) = 8

====
